---- MODULE Spec2Model ----
(***************************************************************************)
(* State-machine model of the BTC lag scalper: the candle cache, the       *)
(* startup backfill, the closed-bar callback of the price feed, the signal *)
(* pipeline, the cooldown manager and the alert dispatch of the            *)
(* orchestrator.                                                           *)
(*                                                                         *)
(* Conventions.  Prices are integers (one unit = one price tick); a        *)
(* percentage or a ratio is an exact fraction <<num, den>> with den > 0,   *)
(* so every comparison the code makes on floats is made here on the exact  *)
(* value.  A bar timestamp counts intervals (bar k of a key starts at      *)
(* k * interval).  An Optional value is a sequence: <<>> is None and <<v>> *)
(* is the value v.  A Candle carries the fields the cache and the strategy *)
(* read (timestamp, low, close, is_closed); open, high and volume are      *)
(* stored and never read by the modelled code.                             *)
(***************************************************************************)
EXTENDS Integers, Sequences, FiniteSets, TLC

VARIABLES
    candles_1m,      \* CandleCache._candles_1m  : symbol -> deque of closed candles
    candles_15m,     \* CandleCache._candles_15m
    current_1m,      \* CandleCache._current_1m  : symbol -> Optional[Candle]
    current_15m,     \* CandleCache._current_15m
    funding_rates,   \* CandleCache._funding_rates : symbol -> Optional[rate]
    last_update,     \* CandleCache._last_update : the keys that have an entry
    boot,            \* initialize_cache: number of history fetches done
    exch,            \* exchange side: index of the bar now forming, per key
    events,          \* number of exchange events so far (bars delivered or missed)
    pending,         \* evaluation tasks created and not yet started (FIFO)
    inflight,        \* evaluation tasks suspended inside _send_alert
    last_alerts,     \* CooldownManager._last_alerts : altcoin -> Optional[time]
    now,             \* time.time(), in seconds
    ticks,           \* number of clock advances so far
    signals_sent,    \* BTCLagScalper._signals_sent
    errors_count,    \* BTCLagScalper._errors_count
    discord_enabled, \* DiscordAlertSender._enabled
    writes,          \* history: every candle handed to add_candle_*, per key
    evals,           \* history: one record per finished check_signal call
    alerts,          \* history: one record per alert that reached a channel
    feed_pc,         \* BinancePriceFeed.run: where the task stands
    feed_running,    \* BinancePriceFeed._running
    ws,              \* BinancePriceFeed._ws: "none", "open" or "closed"
    reconnect_attempts, \* BinancePriceFeed._reconnect_attempts
    delay,           \* _reconnect: the local delay of the sleep in progress
    orphaned,        \* a connection is open that _ws no longer refers to
    waits,           \* history: the delays slept since the last successful connect
    calls,           \* history: one record per callback invocation
    arrived,         \* history: one record per message given to _handle_message
    callbacks,       \* BinancePriceFeed._on_candle_callbacks
    app_pc,          \* BTCLagScalper.start: where the coroutine stands
    stop_pc,         \* BTCLagScalper.stop: where the latest call stands
    stop_calls,      \* history: number of calls of BTCLagScalper.stop
    funding_pc,      \* FundingRateFetcher.run: where the task stands
    funding_running, \* FundingRateFetcher._running
    funding_i,       \* fetch_all_funding_rates: index of the symbol being fetched
    liq_pc,          \* LiquidationFetcher.run: where the task stands
    liq_running,     \* LiquidationFetcher._running
    liq_enabled,     \* LiquidationFetcher._enabled
    cooldown_ops,    \* history: one record per record_alert / clear_cooldown call
    applied,         \* history: the latest application of a strategy function
    liq_cache        \* LiquidationFetcher._cache : symbol -> Optional[LiquidationData]

vars == <<candles_1m, candles_15m, current_1m, current_15m, funding_rates,
          last_update, boot, exch, events, pending, inflight, last_alerts, now,
          ticks, signals_sent, errors_count, discord_enabled, writes, evals,
          alerts, feed_pc, feed_running, ws, reconnect_attempts, delay, orphaned,
          waits, calls, arrived, callbacks, app_pc, stop_pc, stop_calls,
          funding_pc, funding_running, funding_i, liq_pc, liq_running, liq_enabled,
          cooldown_ops, applied, liq_cache>>

cacheVars == <<candles_1m, candles_15m, current_1m, current_15m, last_update, writes>>
evalVars == <<pending, inflight, last_alerts, signals_sent, errors_count, evals, alerts>>
feedVars == <<feed_pc, feed_running, ws, reconnect_attempts, delay, orphaned, waits,
              calls, arrived, callbacks>>
taskVars == <<app_pc, stop_pc, stop_calls, funding_pc, funding_running, funding_i,
              liq_pc, liq_running, liq_enabled>>
auxVars == <<cooldown_ops, applied, liq_cache>>

----------------------------------------------------------------------------
(* Configuration                                                           *)

CANDLES_1M_BUFFER == 100
CANDLES_15M_BUFFER == 50
ALERT_COOLDOWN_SECONDS == 1800

Altcoins == {"SUI"}
BtcSymbol == "BTCUSDT"
AltSymbol(altcoin) == IF altcoin = "SUI" THEN "SUIUSDT" ELSE "BTCUSDT"
Symbols == {BtcSymbol} \cup {AltSymbol(a) : a \in Altcoins}
\* fetch_all_liquidation_data: symbols = ["BTC"] + self.altcoins
LiqSymbols == {"BTC"} \cup Altcoins
Intervals == {"1m", "15m"}
Keys == Symbols \X Intervals

None == <<>>
Some(v) == <<v>>

(* Bounds of the exploration *)
MaxEvents == 2
MaxTicks == 1
MaxCount == 3
AltHist15m == 16
MaxFailedFetches == 1
MaxStops == 2
MaxCallbacks == 3
MaxOps == 3
MaxElapses == 3
MaxBtcBars == 6
MaxRatioBars == 3
MaxLevels == 3
MaxRsiCloses == 5
MaxRsiPeriod == 3

----------------------------------------------------------------------------
(* Sequence helpers                                                        *)

Min2(a, b) == IF a <= b THEN a ELSE b
Max2(a, b) == IF a >= b THEN a ELSE b

\* Python's s[-k:] for k >= 0: the whole list for k = 0 (s[-0:] is s[0:]) and
\* for k >= len(s), otherwise the last k elements.
LastSlice(s, k) ==
    IF k = 0 \/ k >= Len(s) THEN s
    ELSE SubSeq(s, Len(s) - k + 1, Len(s))

\* The last k elements of s (all of s when it is shorter).
LastN(s, k) == IF k >= Len(s) THEN s ELSE SubSeq(s, Len(s) - k + 1, Len(s))

----------------------------------------------------------------------------
(* Candle cache (src/cache.py)                                             *)

Candle(ts, lo, cl, closed) ==
    [timestamp |-> ts, low |-> lo, close |-> cl, is_closed |-> closed]

\* Mutant of DequeAppend: the deque is unbounded.
DequeAppend_Unbounded(buffer, candle, maxlen) == Append(buffer, candle)

\* collections.deque(maxlen=n).append: a full deque drops its oldest element.
DequeAppend(buffer, candle, maxlen) ==
    IF Len(buffer) >= maxlen
    THEN Tail(buffer) \o <<candle>>
    ELSE Append(buffer, candle)

\* Mutant of AddCandle: a closed candle leaves the in-progress slot as it is.
AddCandle_KeepsSlot(st, candle, maxlen) ==
    IF candle.is_closed
    THEN [buf |-> IF Len(st.buf) >= maxlen THEN Tail(st.buf) \o <<candle>>
                  ELSE Append(st.buf, candle),
          cur |-> st.cur]
    ELSE [buf |-> st.buf, cur |-> Some(candle)]

\* The body of add_candle_1m / add_candle_15m on one symbol's buffer and
\* in-progress slot, st = [buf, cur].
AddCandle(st, candle, maxlen) ==
    IF candle.is_closed
    THEN [buf |-> DequeAppend(st.buf, candle, maxlen), cur |-> None]
    ELSE [buf |-> st.buf, cur |-> Some(candle)]

Buffer(interval) == IF interval = "1m" THEN candles_1m ELSE candles_15m
Current(interval) == IF interval = "1m" THEN current_1m ELSE current_15m
BufferSize(interval) ==
    IF interval = "1m" THEN CANDLES_1M_BUFFER ELSE CANDLES_15M_BUFFER

\* `for candle in candles: cache.add_candle_*(symbol, candle)` on one symbol's
\* buffer and slot, as the loop's result: the closed candles are appended in
\* order, each append dropping the oldest element of a full deque, and the
\* slot is left as the last candle of the loop leaves it.
AddCandles(st, candles, maxlen) ==
    IF candles = <<>> THEN st
    ELSE LET closedOnes == SelectSeq(candles, LAMBDA c : c.is_closed)
             last == candles[Len(candles)]
         IN  [buf |-> LastN(st.buf \o closedOnes, maxlen),
              cur |-> IF last.is_closed THEN None ELSE Some(last)]

\* Mutant of add_candle_1m: a closed 1m candle also empties the symbol's 15m
\* in-progress slot.
add_candle_1m_ClearsBoth(symbol, candle) ==
    LET st == AddCandle([buf |-> candles_1m[symbol], cur |-> current_1m[symbol]],
                        candle, CANDLES_1M_BUFFER)
    IN  /\ candles_1m' = [candles_1m EXCEPT ![symbol] = st.buf]
        /\ current_1m' = [current_1m EXCEPT ![symbol] = st.cur]
        /\ current_15m' = IF candle.is_closed
                          THEN [current_15m EXCEPT ![symbol] = None]
                          ELSE current_15m
        /\ last_update' = last_update \cup {<<symbol, "1m">>}
        /\ writes' = [writes EXCEPT ![<<symbol, "1m">>] = Append(@, candle)]
        /\ UNCHANGED candles_15m

\* CandleCache.add_candle_1m(symbol, candle)
add_candle_1m(symbol, candle) ==
    LET st == AddCandle([buf |-> candles_1m[symbol], cur |-> current_1m[symbol]],
                        candle, CANDLES_1M_BUFFER)
    IN  /\ candles_1m' = [candles_1m EXCEPT ![symbol] = st.buf]
        /\ current_1m' = [current_1m EXCEPT ![symbol] = st.cur]
        /\ last_update' = last_update \cup {<<symbol, "1m">>}
        /\ writes' = [writes EXCEPT ![<<symbol, "1m">>] = Append(@, candle)]
        /\ UNCHANGED <<candles_15m, current_15m>>

\* CandleCache.add_candle_15m(symbol, candle)
add_candle_15m(symbol, candle) ==
    LET st == AddCandle([buf |-> candles_15m[symbol], cur |-> current_15m[symbol]],
                        candle, CANDLES_15M_BUFFER)
    IN  /\ candles_15m' = [candles_15m EXCEPT ![symbol] = st.buf]
        /\ current_15m' = [current_15m EXCEPT ![symbol] = st.cur]
        /\ last_update' = last_update \cup {<<symbol, "15m">>}
        /\ writes' = [writes EXCEPT ![<<symbol, "15m">>] = Append(@, candle)]
        /\ UNCHANGED <<candles_1m, current_1m>>

\* initialize_cache: `for candle in candles_1m: cache.add_candle_1m(symbol, candle)`
store_history_1m(symbol, candles) ==
    LET st == AddCandles([buf |-> candles_1m[symbol], cur |-> current_1m[symbol]],
                         candles, CANDLES_1M_BUFFER)
    IN  /\ candles_1m' = [candles_1m EXCEPT ![symbol] = st.buf]
        /\ current_1m' = [current_1m EXCEPT ![symbol] = st.cur]
        /\ last_update' = IF candles = <<>> THEN last_update
                          ELSE last_update \cup {<<symbol, "1m">>}
        /\ writes' = [writes EXCEPT ![<<symbol, "1m">>] = @ \o candles]
        /\ UNCHANGED <<candles_15m, current_15m>>

\* initialize_cache: `for candle in candles_15m: cache.add_candle_15m(symbol, candle)`
store_history_15m(symbol, candles) ==
    LET st == AddCandles([buf |-> candles_15m[symbol], cur |-> current_15m[symbol]],
                         candles, CANDLES_15M_BUFFER)
    IN  /\ candles_15m' = [candles_15m EXCEPT ![symbol] = st.buf]
        /\ current_15m' = [current_15m EXCEPT ![symbol] = st.cur]
        /\ last_update' = IF candles = <<>> THEN last_update
                          ELSE last_update \cup {<<symbol, "15m">>}
        /\ writes' = [writes EXCEPT ![<<symbol, "15m">>] = @ \o candles]
        /\ UNCHANGED <<candles_1m, current_1m>>

\* get_candles_1m / get_candles_15m; count is None (<<>>) or <<n>>.
get_candles(buffers, symbol, count) ==
    IF symbol \notin DOMAIN buffers THEN <<>>
    ELSE IF count = None THEN buffers[symbol]
    ELSE LastSlice(buffers[symbol], count[1])

get_candles_1m(symbol, count) == get_candles(candles_1m, symbol, count)
get_candles_15m(symbol, count) == get_candles(candles_15m, symbol, count)

Closes(candles) == [i \in 1..Len(candles) |-> candles[i].close]

get_closes_1m(symbol, count) == Closes(get_candles_1m(symbol, count))
get_closes_15m(symbol, count) == Closes(get_candles_15m(symbol, count))

\* get_current_price: the in-progress 1m candle's close, else the last closed
\* 1m candle's close, else None.
get_current_price(symbol) ==
    IF symbol \in DOMAIN current_1m /\ current_1m[symbol] /= None
    THEN Some(current_1m[symbol][1].close)
    ELSE IF symbol \in DOMAIN candles_1m /\ candles_1m[symbol] /= <<>>
    THEN Some(candles_1m[symbol][Len(candles_1m[symbol])].close)
    ELSE None

----------------------------------------------------------------------------
(* Exact arithmetic on fractions <<num, den>>, den > 0, in lowest terms     *)

Abs(x) == IF x < 0 THEN -x ELSE x

RECURSIVE Gcd(_, _)
Gcd(a, b) == IF b = 0 THEN a ELSE Gcd(b, a % b)

Frac(n, d) ==
    LET g == Gcd(Abs(n), Abs(d))
        s == IF d < 0 THEN -1 ELSE 1
    IN  <<(s * n) \div g, (s * d) \div g>>

FInt(n) == <<n, 1>>
FAdd(a, b) == Frac(a[1] * b[2] + b[1] * a[2], a[2] * b[2])
FSub(a, b) == Frac(a[1] * b[2] - b[1] * a[2], a[2] * b[2])
FMul(a, b) == Frac(a[1] * b[1], a[2] * b[2])
FDiv(a, b) == Frac(a[1] * b[2], a[2] * b[1])
FLeq(a, b) == a[1] * b[2] <= b[1] * a[2]
FLt(a, b) == a[1] * b[2] < b[1] * a[2]

\* sum(values[lo..hi]) of a list of fractions, by halves
RECURSIVE FSumRange(_, _, _)
FSumRange(values, lo, hi) ==
    IF lo > hi THEN FInt(0)
    ELSE IF lo = hi THEN values[lo]
    ELSE LET mid == (lo + hi) \div 2
         IN  FAdd(FSumRange(values, lo, mid), FSumRange(values, mid + 1, hi))

\* sum(values) of a list of fractions
FSum(values) == FSumRange(values, 1, Len(values))

\* min(values) of a non-empty list of fractions
FMin(values) ==
    LET S == {values[i] : i \in 1..Len(values)}
    IN  CHOOSE m \in S : \A v \in S : FLeq(m, v)

----------------------------------------------------------------------------
(* Strategy thresholds (src/config.py).  Funding rates are counted in       *)
(* hundredths of a percent: -0.08 % is -8.                                  *)

BTC_MIN_DROP_1H == <<-1, 2>>
UNDERPERFORMANCE_THRESHOLD == <<-1, 1>>
UNDERPERFORMANCE_STRONG == <<-2, 1>>
RATIO_RSI_OVERSOLD == 35
FUNDING_RATE_MIN == -8
FUNDING_RATE_SQUEEZE_LOW == -8
FUNDING_RATE_SQUEEZE_HIGH == -3
FUNDING_RATE_CROWDED == 5
RSI_PERIOD == 14

----------------------------------------------------------------------------
(* Indicators (src/indicators.py)                                          *)

\* calculate_percentage_change(old_price, new_price)
calculate_percentage_change(old_price, new_price) ==
    IF old_price = 0 THEN FInt(0)
    ELSE Frac((new_price - old_price) * 100, old_price)

\* calculate_ratio(numerator, denominator): None for a zero denominator
calculate_ratio(numerator, denominator) ==
    IF denominator = 0 THEN None ELSE Some(Frac(numerator, denominator))

\* Wilder's smoothing loop `for i in range(period, len(gains))`; i is 1-based.
RECURSIVE WilderSmooth(_, _, _, _)
WilderSmooth(avg, xs, i, period) ==
    IF i > Len(xs) THEN avg
    ELSE WilderSmooth(FDiv(FAdd(FMul(avg, FInt(period - 1)), xs[i]), FInt(period)),
                      xs, i + 1, period)

\* calculate_rsi: changes[i] = closes[i] - closes[i - 1]
PriceChanges(closes) ==
    [i \in 1..(Len(closes) - 1) |-> FSub(closes[i + 1], closes[i])]

\* calculate_rsi: gains = [max(0, change) for change in changes]
Gains(changes) ==
    [i \in 1..Len(changes) |-> IF FLt(FInt(0), changes[i]) THEN changes[i] ELSE FInt(0)]

\* calculate_rsi: losses = [abs(min(0, change)) for change in changes]
Losses(changes) ==
    [i \in 1..Len(changes) |->
        IF FLt(changes[i], FInt(0)) THEN FSub(FInt(0), changes[i]) ELSE FInt(0)]

\* Mutant of calculate_rsi: the averages of the first `period` values are not
\* smoothed over the remaining ones.
WilderAverage_FirstPeriodOnly(xs, period) ==
    FDiv(FSum(SubSeq(xs, 1, period)), FInt(period))

\* calculate_rsi: the average of the first `period` values, then smoothed
\* over the remaining ones.
WilderAverage(xs, period) ==
    WilderSmooth(FDiv(FSum(SubSeq(xs, 1, period)), FInt(period)), xs, period + 1, period)

\* calculate_rsi: the RSI of the two averages
RsiOf(avg_gain, avg_loss) ==
    IF avg_loss[1] = 0 THEN Some(FInt(100))
    ELSE Some(FSub(FInt(100),
                   FDiv(FInt(100), FAdd(FInt(1), FDiv(avg_gain, avg_loss)))))

\* calculate_rsi(closes, period) on a list of fractions
calculate_rsi(closes, period) ==
    IF Len(closes) < period + 1 THEN None
    ELSE RsiOf(WilderAverage(Gains(PriceChanges(closes)), period),
               WilderAverage(Losses(PriceChanges(closes)), period))

----------------------------------------------------------------------------
(* BTC stabilization (src/btc_stabilization.py)                            *)

get_btc_candles_1m(count) == get_candles_1m(BtcSymbol, Some(count))

\* Mutant of is_btc_stabilizing: a last low equal to the lowest of the four
\* before it counts as stabilizing.
is_btc_stabilizing_EqualLowAllowed(candles) ==
    IF Len(candles) < 5 THEN FALSE
    ELSE LET recent_candles == LastSlice(candles, 5)
             lows == {recent_candles[i].low : i \in 1..4}
             lowest_low == CHOOSE l \in lows : \A x \in lows : l <= x
             current_low == recent_candles[5].low
         IN  current_low >= lowest_low

\* is_btc_stabilizing(candles_1m): the newest of the last five lows is above
\* the lowest of the four before it.
is_btc_stabilizing(candles) ==
    IF Len(candles) < 5 THEN FALSE
    ELSE LET recent_candles == LastSlice(candles, 5)
             lows == {recent_candles[i].low : i \in 1..4}
             lowest_low == CHOOSE l \in lows : \A x \in lows : l <= x
             current_low == recent_candles[5].low
         IN  current_low > lowest_low

\* The three changes of a list of at least 60 candles: against candles[-5],
\* candles[-15] and candles[-60].
ChangesOf(candles) ==
    LET n == Len(candles)
    IN  [change_5m |-> calculate_percentage_change(candles[n - 4].close, candles[n].close),
         change_15m |-> calculate_percentage_change(candles[n - 14].close, candles[n].close),
         change_1h |-> calculate_percentage_change(candles[n - 59].close, candles[n].close)]

NoChanges == [change_5m |-> FInt(0), change_15m |-> FInt(0), change_1h |-> FInt(0)]

\* Mutant of calculate_btc_changes / calculate_price_changes: a series shorter
\* than the lookback is measured from its oldest bar.
PriceChangesOf_FromOldest(candles, lookback) ==
    IF candles = <<>> THEN NoChanges
    ELSE IF Len(candles) < lookback
    THEN [change_5m |-> calculate_percentage_change(candles[1].close,
                                                    candles[Len(candles)].close),
          change_15m |-> calculate_percentage_change(candles[1].close,
                                                     candles[Len(candles)].close),
          change_1h |-> calculate_percentage_change(candles[1].close,
                                                    candles[Len(candles)].close)]
    ELSE ChangesOf(candles)

\* calculate_btc_changes() and calculate_price_changes(symbol, lookback) on
\* the candles they read
PriceChangesOf(candles, lookback) ==
    IF Len(candles) < lookback THEN NoChanges ELSE ChangesOf(candles)

calculate_btc_changes == PriceChangesOf(get_btc_candles_1m(60), 60)

\* has_sufficient_btc_dip(change_1h)
has_sufficient_btc_dip(change_1h) == FLeq(change_1h, BTC_MIN_DROP_1H)

\* get_btc_status()
BTCStatus(candles, change_1h) ==
    IF Len(candles) < 5
    THEN [current_price |-> 0, change_1h |-> FInt(0),
          is_stabilizing |-> FALSE, has_sufficient_dip |-> FALSE]
    ELSE [current_price |-> candles[Len(candles)].close,
          change_1h |-> change_1h,
          is_stabilizing |-> is_btc_stabilizing(candles),
          has_sufficient_dip |-> has_sufficient_btc_dip(change_1h)]

get_btc_status == BTCStatus(get_btc_candles_1m(60), calculate_btc_changes.change_1h)

----------------------------------------------------------------------------
(* Underperformance (src/underperformance.py)                              *)

\* calculate_price_changes(symbol, lookback_minutes)
calculate_price_changes(symbol, lookback_minutes) ==
    PriceChangesOf(get_candles_1m(symbol, Some(lookback_minutes)), lookback_minutes)

\* Mutant of UnderperformanceResult: a spread equal to the threshold does not
\* pass.
UnderperformanceResult_StrictThreshold(alt_1h, spread) ==
    [alt_change_1h |-> alt_1h,
     spread |-> spread,
     is_underperforming |-> FLt(spread, UNDERPERFORMANCE_THRESHOLD),
     is_strong_signal |-> FLeq(spread, UNDERPERFORMANCE_STRONG)]

\* calculate_underperformance(altcoin, btc_change_1h)
UnderperformanceResult(alt_1h, spread) ==
    [alt_change_1h |-> alt_1h,
     spread |-> spread,
     is_underperforming |-> FLeq(spread, UNDERPERFORMANCE_THRESHOLD),
     is_strong_signal |-> FLeq(spread, UNDERPERFORMANCE_STRONG)]

Spread(alt_1h, btc_change_1h) ==
    UnderperformanceResult(alt_1h, FSub(alt_1h, btc_change_1h))

calculate_underperformance(altcoin, btc_change_1h) ==
    Spread(calculate_price_changes(AltSymbol(altcoin), 60).change_1h, btc_change_1h)

----------------------------------------------------------------------------
(* Ratio analysis (src/ratio_analysis.py)                                  *)

\* Mutant of RatiosOf: both lists are cut to their first min_len closes.
RatiosOf_OldestEnd(alt_all, btc_all) ==
    LET min_len == Min2(Len(alt_all), Len(btc_all))
        alt_closes == SubSeq(alt_all, 1, min_len)
        btc_closes == SubSeq(btc_all, 1, min_len)
        pairs == [i \in 1..min_len |-> <<alt_closes[i], btc_closes[i]>>]
        kept == SelectSeq(pairs, LAMBDA p : calculate_ratio(p[1], p[2]) /= None)
    IN  IF min_len = 0 THEN <<>>
        ELSE [i \in 1..Len(kept) |-> calculate_ratio(kept[i][1], kept[i][2])[1]]

\* calculate_ratio_series: the ratios of the last min_len closes of both
\* lists, pairs with a zero BTC close left out.
RatiosOf(alt_all, btc_all) ==
    LET min_len == Min2(Len(alt_all), Len(btc_all))
        alt_closes == LastSlice(alt_all, min_len)
        btc_closes == LastSlice(btc_all, min_len)
        pairs == [i \in 1..min_len |-> <<alt_closes[i], btc_closes[i]>>]
        kept == SelectSeq(pairs, LAMBDA p : calculate_ratio(p[1], p[2]) /= None)
    IN  IF min_len = 0 THEN <<>>
        ELSE [i \in 1..Len(kept) |-> calculate_ratio(kept[i][1], kept[i][2])[1]]

\* calculate_ratio_series(altcoin, use_15m=True)
calculate_ratio_series(altcoin) ==
    RatiosOf(get_closes_15m(AltSymbol(altcoin), None), get_closes_15m(BtcSymbol, None))

\* get_ratio_rsi(altcoin, period)
RatioRsi(ratios, period) ==
    IF Len(ratios) < period + 1 THEN None ELSE calculate_rsi(ratios, period)

get_ratio_rsi(altcoin, period) == RatioRsi(calculate_ratio_series(altcoin), period)

\* get_ratio_24h_low(altcoin): the minimum of the last 96 ratios
Ratio24hLow(ratios) ==
    IF Len(ratios) < 96
    THEN IF ratios = <<>> THEN None ELSE Some(FMin(ratios))
    ELSE Some(FMin(LastSlice(ratios, 96)))

get_ratio_24h_low(altcoin) == Ratio24hLow(calculate_ratio_series(altcoin))

\* get_current_ratio(altcoin)
CurrentRatio(alt_price, btc_price) ==
    IF alt_price = None \/ btc_price = None THEN None
    ELSE calculate_ratio(alt_price[1], btc_price[1])

get_current_ratio(altcoin) ==
    CurrentRatio(get_current_price(AltSymbol(altcoin)), get_current_price(BtcSymbol))

\* is_near_24h_low(current_ratio, low_ratio, threshold_pct=1.0)
is_near_24h_low(current_ratio, low_ratio) ==
    IF low_ratio[1] = 0 THEN FALSE
    ELSE FLeq(FMul(FDiv(FSub(current_ratio, low_ratio), low_ratio), FInt(100)),
              FInt(1))

\* The debug line of analyze_ratio formats ratio_rsi with the format spec
\* ".1f if ratio_rsi else 'N/A'" (the conditional is inside the spec, after
\* the colon).  float.__format__ rejects that spec with ValueError and
\* NoneType.__format__ rejects every non-empty spec with TypeError, so the
\* line completes for no value of ratio_rsi.
DebugLineCompletes(ratio_rsi) == FALSE

\* analyze_ratio from `if current_ratio is None` on.  debug_line_ok tells
\* whether the logger.debug call before the return completes; `raised` is set
\* when it does not.
RatioAnalysis(current_ratio, ratio_rsi, ratio_24h_low, debug_line_ok) ==
    IF current_ratio = None
    THEN [raised |-> FALSE, ratio_rsi |-> None, ratio_24h_low |-> None,
          is_oversold |-> FALSE, near_24h_low |-> FALSE]
    ELSE [raised |-> ~debug_line_ok,
          ratio_rsi |-> ratio_rsi,
          ratio_24h_low |-> ratio_24h_low,
          is_oversold |-> /\ ratio_rsi /= None
                          /\ FLt(ratio_rsi[1], FInt(RATIO_RSI_OVERSOLD)),
          near_24h_low |-> /\ ratio_24h_low /= None
                           /\ is_near_24h_low(current_ratio[1], ratio_24h_low[1])]

\* analyze_ratio(altcoin)
analyze_ratio(altcoin, debug_line_ok) ==
    RatioAnalysis(get_current_ratio(altcoin), get_ratio_rsi(altcoin, RSI_PERIOD),
                  get_ratio_24h_low(altcoin), debug_line_ok)

----------------------------------------------------------------------------
(* Cooldown manager (src/cooldown.py)                                      *)

\* The names the manager's methods are called with, and str.upper() on them.
AssetNames == {"SUI", "sui", "ETH"}

Upper(name) ==
    CASE name = "sui" -> "SUI"
      [] name = "eth" -> "ETH"
      [] OTHER -> name

\* The keys _last_alerts can hold for those names.
CooldownKeys == {Upper(name) : name \in AssetNames}

\* Mutant of can_send_alert: the window must be exceeded, not only reached.
can_send_alert_Strict(altcoin) ==
    IF last_alerts[Upper(altcoin)] = None THEN TRUE
    ELSE now - last_alerts[Upper(altcoin)][1] > ALERT_COOLDOWN_SECONDS

\* CooldownManager.can_send_alert(altcoin)
can_send_alert(altcoin) ==
    IF last_alerts[Upper(altcoin)] = None THEN TRUE
    ELSE now - last_alerts[Upper(altcoin)][1] >= ALERT_COOLDOWN_SECONDS

\* Mutant of record_alert: nothing is recorded.
record_alert_Skipped(altcoin) == last_alerts

\* CooldownManager.record_alert(altcoin): the new _last_alerts
record_alert(altcoin) == [last_alerts EXCEPT ![Upper(altcoin)] = Some(now)]

\* Mutant of get_remaining_cooldown: the difference is not floored at 0.
get_remaining_cooldown_NoFloor(altcoin) ==
    IF last_alerts[Upper(altcoin)] = None THEN 0
    ELSE ALERT_COOLDOWN_SECONDS - (now - last_alerts[Upper(altcoin)][1])

\* CooldownManager.get_remaining_cooldown(altcoin)
get_remaining_cooldown(altcoin) ==
    IF last_alerts[Upper(altcoin)] = None THEN 0
    ELSE Max2(0, ALERT_COOLDOWN_SECONDS - (now - last_alerts[Upper(altcoin)][1]))

\* Mutant of clear_cooldown: the whole map is emptied.
clear_cooldown_Everything(altcoin) == [k \in DOMAIN last_alerts |-> None]

\* CooldownManager.clear_cooldown(altcoin): the new _last_alerts
clear_cooldown(altcoin) == [last_alerts EXCEPT ![Upper(altcoin)] = None]

\* CooldownManager.clear_all(): the new _last_alerts
clear_all == [k \in DOMAIN last_alerts |-> None]

----------------------------------------------------------------------------
(* Liquidation data (src/liquidations.py).  Values are in millions of USD, *)
(* distances are percentages kept as fractions.                            *)

LiquidationCluster(price, total_value_usd, is_long, distance_percent) ==
    [price |-> price, total_value_usd |-> total_value_usd, is_long |-> is_long,
     distance_percent |-> distance_percent]

FAbs(a) == <<Abs(a[1]), a[2]>>

\* list.sort(key=lambda x: x.distance_percent): stable, ascending.  The head
\* goes after the clusters of the sorted tail that are strictly nearer.
RECURSIVE SortByDistance(_)
SortByDistance(clusters) ==
    IF clusters = <<>> THEN <<>>
    ELSE LET rest == SortByDistance(Tail(clusters))
             c == Head(clusters)
             k == Cardinality({i \in 1..Len(rest) :
                                 FLt(rest[i].distance_percent, c.distance_percent)})
         IN  SubSeq(rest, 1, k) \o <<c>> \o SubSeq(rest, k + 1, Len(rest))

\* The loop of _parse_liquidation_data over one level: the cluster it appends
\* to clusters_above or clusters_below, if any.
ClusterOf(level, current_price) ==
    LET distance == FMul(Frac(level.price - current_price, current_price), FInt(100))
    IN  IF level.price = 0 THEN None
        ELSE IF level.price > current_price /\ level.shortLiquidationUsd > 0
        THEN Some(LiquidationCluster(level.price, level.shortLiquidationUsd, FALSE,
                                     FAbs(distance)))
        ELSE IF level.price < current_price /\ level.longLiquidationUsd > 0
        THEN Some(LiquidationCluster(level.price, level.longLiquidationUsd, TRUE,
                                     FAbs(distance)))
        ELSE None

ClustersOf(levels, current_price, is_long) ==
    LET found == [i \in 1..Len(levels) |-> ClusterOf(levels[i], current_price)]
        kept == SelectSeq(found, LAMBDA c : c /= None /\ c[1].is_long = is_long)
    IN  [i \in 1..Len(kept) |-> kept[i][1]]

\* LiquidationFetcher._parse_liquidation_data(symbol, data) on a response
\* whose data holds a price and a list of levels.
parse_liquidation_data(data) ==
    IF data.price = 0 THEN None
    ELSE Some([current_price |-> data.price,
               clusters_above |-> SortByDistance(ClustersOf(data.levels, data.price, FALSE)),
               clusters_below |-> SortByDistance(ClustersOf(data.levels, data.price, TRUE))])

\* max(eligible, key=lambda x: x.total_value_usd): the first of the elements
\* with the largest value.
MaxByValue(eligible) ==
    eligible[CHOOSE i \in 1..Len(eligible) :
                /\ \A j \in 1..Len(eligible) :
                     eligible[j].total_value_usd <= eligible[i].total_value_usd
                /\ \A j \in 1..(i - 1) :
                     eligible[j].total_value_usd < eligible[i].total_value_usd]

\* Mutant of NearestWithin: the nearest eligible cluster, whatever its value.
NearestWithin_First(clusters, within_percent) ==
    LET eligible == SelectSeq(clusters,
                              LAMBDA c : FLeq(c.distance_percent, within_percent))
    IN  IF eligible = <<>> THEN None ELSE Some(eligible[1])

\* LiquidationData.get_nearest_below / get_nearest_above on its list.
NearestWithin(clusters, within_percent) ==
    LET eligible == SelectSeq(clusters,
                              LAMBDA c : FLeq(c.distance_percent, within_percent))
    IN  IF eligible = <<>> THEN None ELSE Some(MaxByValue(eligible))

get_nearest_below(liq_data, within_percent) ==
    NearestWithin(liq_data.clusters_below, within_percent)

get_nearest_above(liq_data, within_percent) ==
    NearestWithin(liq_data.clusters_above, within_percent)

\* LiquidationFetcher.get_cached_data(symbol)
get_cached_data(symbol) ==
    IF Upper(symbol) \in DOMAIN liq_cache THEN liq_cache[Upper(symbol)] ELSE None

\* The replies of the liquidation endpoint are records: status "403",
\* status "error" (another status, an exception, success false), or status
\* "200" with the price and the levels of the data.
IsLiqData(reply) == reply.status = "200"

\* _fetch_liquidation_data(symbol): the LiquidationData returned, if any.
fetch_liquidation_data(reply) ==
    IF IsLiqData(reply) THEN parse_liquidation_data(reply) ELSE None

----------------------------------------------------------------------------
(* Signal generator (src/signal_generator.py)                              *)

get_funding_rate(symbol) ==
    IF symbol \in DOMAIN funding_rates THEN funding_rates[symbol] ELSE None

\* Mutant of check_funding_rate: the squeeze band has no upper end.
FundingCheck_NoSqueezeCeiling(rate) ==
    IF rate = None
    THEN [rate |-> None, is_valid |-> TRUE,
          squeeze_potential |-> FALSE, crowded_longs |-> FALSE]
    ELSE [rate |-> rate,
          is_valid |-> rate[1] > FUNDING_RATE_MIN,
          squeeze_potential |-> rate[1] >= FUNDING_RATE_SQUEEZE_LOW,
          crowded_longs |-> rate[1] > FUNDING_RATE_CROWDED]

\* check_funding_rate on the cached rate
FundingCheck(rate) ==
    IF rate = None
    THEN [rate |-> None, is_valid |-> TRUE,
          squeeze_potential |-> FALSE, crowded_longs |-> FALSE]
    ELSE [rate |-> rate,
          is_valid |-> rate[1] > FUNDING_RATE_MIN,
          squeeze_potential |-> /\ FUNDING_RATE_SQUEEZE_HIGH >= rate[1]
                                /\ rate[1] >= FUNDING_RATE_SQUEEZE_LOW,
          crowded_longs |-> rate[1] > FUNDING_RATE_CROWDED]

\* Mutant of check_funding_rate: every rate is valid.
check_funding_rate_AlwaysValid(altcoin) ==
    [FundingCheck(get_funding_rate(AltSymbol(altcoin))) EXCEPT !.is_valid = TRUE]

\* SignalGenerator.check_funding_rate(altcoin)
check_funding_rate(altcoin) == FundingCheck(get_funding_rate(AltSymbol(altcoin)))

\* Results of check_signal: a Signal, None with the stage that returned it,
\* or the exception that left the function.
NoSignal(stage) == [outcome |-> "none", stage |-> stage, is_strong |-> FALSE]
Raised(stage) == [outcome |-> "error", stage |-> stage, is_strong |-> FALSE]
Signal(is_strong, current_price, levels, liq_check, warnings) ==
    [outcome |-> "signal", stage |-> "signal", is_strong |-> is_strong,
     current_price |-> current_price, levels |-> levels,
     liquidation_check |-> liq_check, warnings |-> warnings]

\* main.py constructs SignalGenerator(self.liquidation_fetcher): the fetcher is
\* always attached.
liquidation_fetcher_attached == TRUE

\* check_liquidations on the fetcher's state.  The two texts are kept as the
\* clusters they describe, None standing for the empty string.
LiquidationCheck(attached, enabled, liq_data) ==
    IF ~attached \/ ~enabled THEN None
    ELSE IF liq_data = None THEN None
    ELSE Some([has_cluster_below |-> get_nearest_below(liq_data[1], <<3, 2>>) /= None,
               has_cluster_above |-> get_nearest_above(liq_data[1], <<2, 1>>) /= None,
               cluster_below_warning |-> get_nearest_below(liq_data[1], <<3, 2>>),
               cluster_above_note |-> get_nearest_above(liq_data[1], <<2, 1>>)])

\* SignalGenerator.check_liquidations(altcoin)
check_liquidations(altcoin) ==
    LiquidationCheck(liquidation_fetcher_attached, liq_enabled, get_cached_data(altcoin))

\* Mutant of calculate_levels: the stop is 0.5 % below the price, not below
\* the lower end of the entry band.
calculate_levels_StopFromPrice(current_price) ==
    [entry_high |-> FInt(current_price),
     entry_low |-> FMul(FInt(current_price), <<997, 1000>>),
     stop_loss |-> FMul(FInt(current_price), <<995, 1000>>),
     target_1 |-> FMul(FInt(current_price), <<101, 100>>),
     target_2 |-> FMul(FInt(current_price), <<1015, 1000>>)]

\* SignalGenerator.calculate_levels(current_price)
calculate_levels(current_price) ==
    [entry_high |-> FInt(current_price),
     entry_low |-> FMul(FInt(current_price), <<997, 1000>>),
     stop_loss |-> FMul(FMul(FInt(current_price), <<997, 1000>>), <<995, 1000>>),
     target_1 |-> FMul(FInt(current_price), <<101, 100>>),
     target_2 |-> FMul(FInt(current_price), <<1015, 1000>>)]

\* check_signal: the warnings collected for the Signal, in order.
Warnings(funding, liq_check) ==
    (IF funding.crowded_longs THEN <<"Crowded longs - be cautious">> ELSE <<>>)
    \o (IF liq_check /= None /\ liq_check[1].cluster_below_warning /= None
        THEN <<[cluster_below |-> liq_check[1].cluster_below_warning[1]]>> ELSE <<>>)
    \o (IF liq_check /= None /\ liq_check[1].cluster_above_note /= None
        THEN <<[cluster_above |-> liq_check[1].cluster_above_note[1]]>> ELSE <<>>)

\* Mutant of FundingStage: a long-liquidation cluster just below the price
\* stops the evaluation.
FundingStage_ClusterBelowBlocks(underperf, ratio, funding, liq_check, current_price) ==
    IF ~funding.is_valid THEN NoSignal("funding")
    ELSE IF liq_check /= None /\ liq_check[1].has_cluster_below
    THEN NoSignal("liquidations")
    ELSE IF current_price = None THEN NoSignal("price")
    ELSE Signal(/\ underperf.is_strong_signal
                /\ ratio.is_oversold
                /\ funding.squeeze_potential,
                current_price[1], calculate_levels(current_price[1]), liq_check,
                Warnings(funding, liq_check))

\* Mutant of FundingStage: a crowded funding rate stops the evaluation.
FundingStage_CrowdedBlocks(underperf, ratio, funding, liq_check, current_price) ==
    IF ~funding.is_valid \/ funding.crowded_longs THEN NoSignal("funding")
    ELSE IF current_price = None THEN NoSignal("price")
    ELSE Signal(/\ underperf.is_strong_signal
                /\ ratio.is_oversold
                /\ funding.squeeze_potential,
                current_price[1], calculate_levels(current_price[1]), liq_check,
                Warnings(funding, liq_check))

\* check_signal from the funding stage on (step 4 to the return).
FundingStage(underperf, ratio, funding, liq_check, current_price) ==
    IF ~funding.is_valid THEN NoSignal("funding")
    ELSE IF current_price = None THEN NoSignal("price")
    ELSE Signal(/\ underperf.is_strong_signal
                /\ ratio.is_oversold
                /\ funding.squeeze_potential,
                current_price[1], calculate_levels(current_price[1]), liq_check,
                Warnings(funding, liq_check))

\* check_signal from the result of analyze_ratio on (step 3).
RatioStage(altcoin, underperf, ratio) ==
    IF ratio.raised THEN Raised("ratio")
    ELSE IF ~ratio.is_oversold /\ ~ratio.near_24h_low THEN NoSignal("ratio")
    ELSE FundingStage(underperf, ratio, check_funding_rate(altcoin),
                      check_liquidations(altcoin),
                      get_current_price(AltSymbol(altcoin)))

\* check_signal from the result of calculate_underperformance on (step 2).
UnderperformanceStage(altcoin, underperf, debug_line_ok) ==
    IF ~underperf.is_underperforming THEN NoSignal("underperformance")
    ELSE RatioStage(altcoin, underperf, analyze_ratio(altcoin, debug_line_ok))

\* check_signal from the result of get_btc_status on (step 1).
BtcStage(altcoin, btc_status, debug_line_ok) ==
    IF ~btc_status.has_sufficient_dip THEN NoSignal("btc_dip")
    ELSE IF ~btc_status.is_stabilizing THEN NoSignal("btc_stabilizing")
    ELSE UnderperformanceStage(altcoin,
             calculate_underperformance(altcoin, btc_status.change_1h),
             debug_line_ok)

\* SignalGenerator.check_signal(altcoin)
check_signal(altcoin, debug_line_ok) ==
    IF ~can_send_alert(altcoin) THEN NoSignal("cooldown")
    ELSE BtcStage(altcoin, get_btc_status, debug_line_ok)

----------------------------------------------------------------------------
(* Exchange side: what the REST history call and the kline stream deliver  *)

\* initialize_cache fetches in this order: per symbol, 1m then 15m.
BackfillPlan ==
    << <<"BTCUSDT", "1m">>, <<"BTCUSDT", "15m">>,
       <<"SUIUSDT", "1m">>, <<"SUIUSDT", "15m">> >>

\* Index of the bar that is forming when the process starts.
FirstForming == 200

\* Shapes of a history response: "none" is a failed fetch (the function
\* returns []), "dip" is a market that fell during its last five bars.
HistoryShapes == {"none", "dip"}

\* Number of bars a successful history call returns: `limit`, or fewer for a
\* market that has not traded that long.
HistoryLen(symbol, interval) ==
    IF interval = "1m" THEN CANDLES_1M_BUFFER
    ELSE IF symbol = BtcSymbol THEN CANDLES_15M_BUFFER
    ELSE AltHist15m

BasePrice(symbol) == IF symbol = BtcSymbol THEN 1000 ELSE 100
DipPrice(symbol) == IF symbol = BtcSymbol THEN 990 ELSE 96

\* The i-th of n bars of a "dip" history.
HistoryBar(symbol, interval, i, n, ts) ==
    LET tail == IF interval = "1m" THEN 5 ELSE 1
        c == IF i <= n - tail THEN BasePrice(symbol) ELSE DipPrice(symbol)
        l == IF i <= n - tail THEN c
             ELSE IF symbol = BtcSymbol /\ interval = "1m" THEN c - 5 + (i - (n - tail))
             ELSE c
    IN  Candle(ts, l, c, TRUE)

\* fetch_historical_candles: the newest n klines up to and including the one
\* still forming at the exchange (index `forming`), every one of them built
\* with is_closed=True.
fetch_historical_candles(symbol, interval, shape, forming) ==
    IF shape = "none" THEN <<>>
    ELSE LET n == HistoryLen(symbol, interval)
         IN  [i \in 1..n |-> HistoryBar(symbol, interval, i, n, forming - n + i)]

\* The (low, close) pairs a stream update may carry.
LiveBars(symbol, interval) ==
    IF symbol = BtcSymbol
    THEN IF interval = "1m"
         THEN {[low |-> 980, close |-> 990], [low |-> 990, close |-> 1000]}
         ELSE {[low |-> 990, close |-> 990]}
    ELSE IF interval = "1m"
         THEN {[low |-> 96, close |-> 96], [low |-> 100, close |-> 100]}
         ELSE {[low |-> 96, close |-> 96]}

----------------------------------------------------------------------------
(* Startup and stream handling (src/price_feed.py, src/main.py)            *)

\* The candle cache after construction.
EmptyStore ==
    /\ candles_1m = [s \in Symbols |-> <<>>]
    /\ candles_15m = [s \in Symbols |-> <<>>]
    /\ current_1m = [s \in Symbols |-> None]
    /\ current_15m = [s \in Symbols |-> None]
    /\ last_update = {}
    /\ writes = [k \in Keys |-> <<>>]

\* The state after construction, the candle cache apart.
InitOutsideStore ==
    /\ funding_rates = [s \in Symbols |-> None]
    /\ exch = [k \in Keys |-> FirstForming]
    /\ events = 0
    /\ pending = <<>>
    /\ inflight = <<>>
    /\ last_alerts = [k \in CooldownKeys |-> None]
    /\ now = 0
    /\ ticks = 0
    /\ signals_sent = 0
    /\ errors_count = 0
    /\ discord_enabled \in BOOLEAN
    /\ evals = <<>>
    /\ alerts = <<>>
    /\ feed_pc = "idle"
    /\ feed_running = FALSE
    /\ ws = "none"
    /\ reconnect_attempts = 0
    /\ delay = 0
    /\ orphaned = FALSE
    /\ waits = <<>>
    /\ calls = <<>>
    /\ arrived = <<>>
    /\ callbacks = <<"on_candle_close">>
    /\ app_pc = "startup"
    /\ stop_pc = "idle"
    /\ stop_calls = 0
    /\ funding_pc = "idle"
    /\ funding_running = FALSE
    /\ funding_i = 0
    /\ liq_pc = "idle"
    /\ liq_running = FALSE
    /\ liq_enabled \in BOOLEAN
    /\ cooldown_ops = <<>>
    /\ liq_cache = [s \in LiqSymbols |-> None]

Init ==
    /\ EmptyStore
    /\ InitOutsideStore
    /\ boot = 0
    /\ applied = None

\* One iteration of initialize_cache's fetch-and-store steps.
FailedFetches == Cardinality({j \in 1..boot : writes[BackfillPlan[j]] = <<>>})

InitializeCacheStep(shape) ==
    /\ boot < Len(BackfillPlan)
    /\ shape = "none" => FailedFetches < MaxFailedFetches
    /\ LET symbol == BackfillPlan[boot + 1][1]
           interval == BackfillPlan[boot + 1][2]
           candles == fetch_historical_candles(symbol, interval, shape,
                                               exch[<<symbol, interval>>])
       IN  IF interval = "1m" THEN store_history_1m(symbol, candles)
           ELSE store_history_15m(symbol, candles)
    /\ boot' = boot + 1
    /\ UNCHANGED <<funding_rates, exch, events, now, ticks, discord_enabled>>
    /\ UNCHANGED evalVars
    /\ UNCHANGED <<feedVars, taskVars>>
    /\ UNCHANGED auxVars

RECURSIVE SetToSeq(_)
SetToSeq(S) ==
    IF S = {} THEN <<>>
    ELSE LET x == CHOOSE y \in S : TRUE IN <<x>> \o SetToSeq(S \ {x})

\* Mutant of _on_candle_close: the interval is not looked at.
on_candle_close_AnyInterval(symbol, interval) ==
    SetToSeq({a \in Altcoins : symbol = AltSymbol(a)})

\* BTCLagScalper._on_candle_close: the tasks it creates, in creation order.
on_candle_close(symbol, interval) ==
    IF interval /= "1m" THEN <<>>
    ELSE SetToSeq({a \in Altcoins : symbol = AltSymbol(a)})

\* BinancePriceFeed._process_candle for one parsed kline message.
process_candle(symbol, interval, candle) ==
    /\ IF interval = "1m" THEN add_candle_1m(symbol, candle)
       ELSE IF interval = "15m" THEN add_candle_15m(symbol, candle)
       ELSE UNCHANGED cacheVars
    /\ pending' = IF candle.is_closed
                  THEN pending \o on_candle_close(symbol, interval)
                  ELSE pending

\* _handle_message on a well-formed kline update of the bar now forming.
HandleMessage(symbol, interval, bar, closed) ==
    /\ boot = Len(BackfillPlan)
    /\ events < MaxEvents
    /\ process_candle(symbol, interval,
                      Candle(exch[<<symbol, interval>>], bar.low, bar.close, closed))
    /\ exch' = IF closed THEN [exch EXCEPT ![<<symbol, interval>>] = @ + 1] ELSE exch
    /\ events' = events + 1
    /\ UNCHANGED <<funding_rates, boot, now, ticks, discord_enabled, inflight,
                   last_alerts, signals_sent, errors_count, evals, alerts>>
    /\ UNCHANGED <<feedVars, taskVars>>
    /\ UNCHANGED auxVars

\* The bars of one interval that were forming during the history fetch close
\* before the stream is connected: the stream will never deliver them.
MissedBar(interval) ==
    /\ boot = Len(BackfillPlan)
    /\ events = 0
    /\ \A s \in Symbols : exch[<<s, interval>>] = FirstForming
    /\ exch' = [k \in Keys |-> IF k[2] = interval THEN exch[k] + 1 ELSE exch[k]]
    /\ UNCHANGED <<funding_rates, boot, events, now, ticks, discord_enabled>>
    /\ UNCHANGED cacheVars
    /\ UNCHANGED evalVars
    /\ UNCHANGED <<feedVars, taskVars>>
    /\ UNCHANGED auxVars

Backfill == \E shape \in HistoryShapes : InitializeCacheStep(shape)

\* The history fetches of startup, each returning the bars of the dip.
BackfillDip == InitializeCacheStep("dip")

Receive ==
    \E symbol \in Symbols, interval \in Intervals, closed \in BOOLEAN :
        \E bar \in LiveBars(symbol, interval) :
            HandleMessage(symbol, interval, bar, closed)

Miss == \E interval \in Intervals : MissedBar(interval)

NextStore == Backfill \/ Receive \/ Miss

InitStore == Init /\ discord_enabled = FALSE /\ liq_enabled = FALSE

SpecStore == InitStore /\ [][NextStore]_vars

----------------------------------------------------------------------------
(* Evaluation tasks and alert dispatch (src/main.py), pollers and clock    *)

\* The replies the funding endpoint may give: no rate (a failed request) or a
\* rate in hundredths of a percent.
FundingReplies == {None, Some(-10), Some(-5)}

\* CandleCache.set_funding_rate(symbol, rate)
set_funding_rate(symbol, rate) ==
    /\ funding_rates' = [funding_rates EXCEPT ![symbol] = Some(rate)]
    /\ last_update' = last_update \cup {<<symbol, "funding">>}

\* One iteration of the loop of FundingRateFetcher.fetch_all_funding_rates.
FetchFundingRate(symbol, reply) ==
    /\ boot = Len(BackfillPlan)
    /\ IF reply /= None THEN set_funding_rate(symbol, reply[1])
       ELSE UNCHANGED <<funding_rates, last_update>>
    /\ UNCHANGED <<candles_1m, candles_15m, current_1m, current_15m, writes,
                   boot, exch, events, now, ticks, discord_enabled>>
    /\ UNCHANGED evalVars
    /\ UNCHANGED <<feedVars, taskVars>>
    /\ UNCHANGED auxVars

\* The steps by which the clock advances: one cooldown period.
TickSteps == {ALERT_COOLDOWN_SECONDS}

Tick(d) ==
    /\ ticks < MaxTicks
    /\ now' = now + d
    /\ ticks' = ticks + 1
    /\ UNCHANGED <<funding_rates, boot, exch, events, discord_enabled>>
    /\ UNCHANGED cacheVars
    /\ UNCHANGED evalVars
    /\ UNCHANGED <<feedVars, taskVars>>
    /\ UNCHANGED auxVars

RemoveAt(s, i) == SubSeq(s, 1, i - 1) \o SubSeq(s, i + 1, Len(s))

\* What a sender's request can end with: an HTTP status, a timeout, or any
\* other exception.
SendReplies == {"200", "204", "500", "timeout", "error"}

\* Config.validate requires the Telegram token and chat id, and start exits
\* without them: in a started program the Telegram sender is enabled.
telegram_is_enabled == TRUE

\* TelegramAlertSender.send_message: True for status 200 only; False when
\* disabled, for another status, a timeout or an exception.
telegram_send_message(enabled, reply) == enabled /\ reply = "200"

\* DiscordAlertSender.send_message: True for status 200 or 204.
discord_send_message(enabled, reply) == enabled /\ reply \in {"200", "204"}

ChannelReply(channel, reply) == [channel |-> channel, reply |-> reply]

\* The tail of _send_alert, after both send_signal calls have returned.
FinishSendAlert(i, replies, telegram_success, discord_success) ==
    LET altcoin == inflight[i].altcoin
    IN  /\ inflight' = RemoveAt(inflight, i)
        /\ alerts' = Append(alerts, [altcoin |-> altcoin,
                                     telegram_success |-> telegram_success,
                                     discord_success |-> discord_success,
                                     replies |-> replies,
                                     at |-> now])
        /\ IF telegram_success \/ discord_success
           THEN /\ last_alerts' = record_alert(altcoin)
                /\ signals_sent' = signals_sent + 1
                /\ UNCHANGED errors_count
           ELSE /\ errors_count' = errors_count + 1
                /\ UNCHANGED <<last_alerts, signals_sent>>

\* Mutant of check_signal: the function is suspended after its cooldown check,
\* and a closing 1m update of the asset is handled before the other stages
\* read the store.
CheckAndSendSignal_SuspendedAfterCooldown(debug_line_ok) ==
    /\ pending /= <<>>
    /\ UNCHANGED <<funding_rates, boot, exch, events, now, ticks, discord_enabled,
                   last_alerts, signals_sent, alerts>>
    /\ UNCHANGED <<feedVars, taskVars>>
    /\ UNCHANGED auxVars
    /\ \E bar \in LiveBars(AltSymbol(Head(pending)), "1m") :
           add_candle_1m(AltSymbol(Head(pending)),
                         Candle(exch[<<AltSymbol(Head(pending)), "1m">>],
                                bar.low, bar.close, TRUE))
    /\ \E signal \in {IF ~can_send_alert(Head(pending)) THEN NoSignal("cooldown")
                       ELSE BtcStage(Head(pending), get_btc_status, debug_line_ok)'} :
           /\ pending' = Tail(pending)
           /\ evals' = Append(evals, [altcoin |-> Head(pending),
                                      outcome |-> signal.outcome,
                                      stage |-> signal.stage,
                                      at |-> now])
           /\ inflight' = IF signal.outcome = "signal"
                          THEN Append(inflight, [altcoin |-> Head(pending),
                                                 pc |-> "telegram",
                                                 telegram_success |-> FALSE,
                                                 replies |-> <<>>])
                          ELSE inflight
           /\ errors_count' = IF signal.outcome = "error"
                              THEN errors_count + 1 ELSE errors_count

\* _check_and_send_signal from its start to its first suspension: the task
\* at the head of the ready queue runs check_signal; a Signal takes it into
\* _send_alert, where it waits for Telegram's reply; an exception is counted.
CheckAndSendSignal(debug_line_ok) ==
    /\ pending /= <<>>
    /\ \E signal \in {check_signal(Head(pending), debug_line_ok)} :
           /\ pending' = Tail(pending)
           /\ evals' = Append(evals, [altcoin |-> Head(pending),
                                      outcome |-> signal.outcome,
                                      stage |-> signal.stage,
                                      at |-> now])
           /\ inflight' = IF signal.outcome = "signal"
                          THEN Append(inflight, [altcoin |-> Head(pending),
                                                 pc |-> "telegram",
                                                 telegram_success |-> FALSE,
                                                 replies |-> <<>>])
                          ELSE inflight
           /\ errors_count' = IF signal.outcome = "error"
                              THEN errors_count + 1 ELSE errors_count
    /\ UNCHANGED <<funding_rates, boot, exch, events, now, ticks, discord_enabled,
                   last_alerts, signals_sent, alerts>>
    /\ UNCHANGED cacheVars
    /\ UNCHANGED <<feedVars, taskVars>>
    /\ UNCHANGED auxVars

\* Mutant of _send_alert: Discord is tried only when Telegram did not deliver.
TelegramDone_DiscordAsFallback(i, reply) ==
    /\ i \in 1..Len(inflight)
    /\ inflight[i].pc = "telegram"
    /\ \E ok \in {telegram_send_message(telegram_is_enabled, reply)} :
         IF discord_enabled /\ ~ok
         THEN /\ inflight' = [inflight EXCEPT ![i] =
                    [@ EXCEPT !.pc = "discord", !.telegram_success = ok,
                              !.replies = <<ChannelReply("telegram", reply)>>]]
              /\ UNCHANGED <<last_alerts, signals_sent, errors_count, alerts>>
         ELSE FinishSendAlert(i, <<ChannelReply("telegram", reply)>>, ok, FALSE)
    /\ UNCHANGED <<funding_rates, boot, exch, events, now, ticks, discord_enabled,
                   pending, evals>>
    /\ UNCHANGED cacheVars
    /\ UNCHANGED <<feedVars, taskVars>>
    /\ UNCHANGED auxVars

\* telegram_sender.send_signal returns to the i-th waiting task, its request
\* having ended with `reply`; the task goes on to discord_sender.send_signal:
\* a disabled sender returns False at once, an enabled one suspends the task
\* until Discord replies.
TelegramDone(i, reply) ==
    /\ i \in 1..Len(inflight)
    /\ inflight[i].pc = "telegram"
    /\ \E ok \in {telegram_send_message(telegram_is_enabled, reply)} :
         IF discord_enabled
         THEN /\ inflight' = [inflight EXCEPT ![i] =
                    [@ EXCEPT !.pc = "discord", !.telegram_success = ok,
                              !.replies = <<ChannelReply("telegram", reply)>>]]
              /\ UNCHANGED <<last_alerts, signals_sent, errors_count, alerts>>
         ELSE FinishSendAlert(i, <<ChannelReply("telegram", reply),
                                   ChannelReply("discord", "disabled")>>,
                              ok, discord_send_message(FALSE, "disabled"))
    /\ UNCHANGED <<funding_rates, boot, exch, events, now, ticks, discord_enabled,
                   pending, evals>>
    /\ UNCHANGED cacheVars
    /\ UNCHANGED <<feedVars, taskVars>>
    /\ UNCHANGED auxVars

\* discord_sender.send_signal returns to the i-th waiting task, its request
\* having ended with `reply`.
DiscordDone(i, reply) ==
    /\ i \in 1..Len(inflight)
    /\ inflight[i].pc = "discord"
    /\ FinishSendAlert(i, Append(inflight[i].replies, ChannelReply("discord", reply)),
                       inflight[i].telegram_success,
                       discord_send_message(discord_enabled, reply))
    /\ UNCHANGED <<funding_rates, boot, exch, events, now, ticks, discord_enabled,
                   pending, evals>>
    /\ UNCHANGED cacheVars
    /\ UNCHANGED <<feedVars, taskVars>>
    /\ UNCHANGED auxVars

\* The stream delivers the closing update of a 1m bar.
Feed ==
    \E symbol \in Symbols : \E bar \in LiveBars(symbol, "1m") :
        HandleMessage(symbol, "1m", bar, TRUE)

\* The poller's iteration for a tracked asset.  (Its iteration for BTC writes
\* a rate that no evaluation reads.)
Poll ==
    \E altcoin \in Altcoins : \E reply \in FundingReplies :
        FetchFundingRate(AltSymbol(altcoin), reply)

Clock == \E d \in TickSteps : Tick(d)

\* The evaluation task as written: its debug line never completes.
Evaluate == CheckAndSendSignal(DebugLineCompletes(None))

\* The evaluation task with the outcome of the debug line left open.
EvaluateAny == \E debug_line_ok \in BOOLEAN : CheckAndSendSignal(debug_line_ok)

\* Telegram delivers or answers with an error status.
TelegramReply ==
    \E i \in 1..Len(inflight), reply \in {"200", "500"} : TelegramDone(i, reply)

\* Discord delivers or answers with an error status.
DiscordReply ==
    \E i \in 1..Len(inflight), reply \in {"204", "500"} : DiscordDone(i, reply)

\* The program as written.
Next == Backfill \/ Feed \/ Poll \/ Clock \/ Evaluate

Spec == Init /\ [][Next]_vars

\* The evaluation pipeline with the outcome of analyze_ratio's debug line left
\* open (it raises, as in Spec, or it completes), Discord not configured.
NextGates == Backfill \/ Feed \/ Poll \/ Clock \/ EvaluateAny \/ TelegramReply

SpecGates == InitStore /\ [][NextGates]_vars

\* Evaluation and alert dispatch on both channels, the outcome of the debug
\* line left open as in SpecGates.
NextDispatch == Backfill \/ Feed \/ EvaluateAny \/ TelegramReply \/ DiscordReply

SpecDispatch == Init /\ [][NextDispatch]_vars

\* Alert dispatch with every way a sender's request can end.
TelegramResponds ==
    \E i \in 1..Len(inflight), reply \in SendReplies : TelegramDone(i, reply)

DiscordResponds ==
    \E i \in 1..Len(inflight), reply \in SendReplies : DiscordDone(i, reply)

NextChannels ==
    BackfillDip \/ Feed \/ EvaluateAny \/ TelegramResponds \/ DiscordResponds

SpecChannels == Init /\ [][NextChannels]_vars

----------------------------------------------------------------------------
(* The stream client's connection (src/price_feed.py)                      *)

MAX_RECONNECT_ATTEMPTS == 10
INITIAL_RECONNECT_DELAY == 1
MAX_RECONNECT_DELAY == 60

otherVars == <<funding_rates, boot, exch, events, now, ticks, discord_enabled>>

\* _reconnect: the delay slept before the attempt numbered attempt, in seconds.
BackoffDelay_Uncapped(attempt) == INITIAL_RECONNECT_DELAY * 2^(attempt - 1)

BackoffDelay(attempt) ==
    Min2(INITIAL_RECONNECT_DELAY * 2^(attempt - 1), MAX_RECONNECT_DELAY)

\* BinancePriceFeed.is_running
is_running == feed_running /\ ws /= "none"

\* _reconnect from its first line to its sleep, or to the return of False
\* that takes run to its break.
reconnect ==
    IF reconnect_attempts >= MAX_RECONNECT_ATTEMPTS
    THEN /\ feed_pc' = "gave_up"
         /\ delay' = 0
         /\ UNCHANGED <<reconnect_attempts, waits>>
    ELSE /\ reconnect_attempts' = reconnect_attempts + 1
         /\ delay' = BackoffDelay(reconnect_attempts + 1)
         /\ feed_pc' = "backoff"
         /\ UNCHANGED waits

\* The except clauses of run: kind "websocket" is ConnectionClosed or another
\* WebSocketException, any other kind is the clause for Exception.  A handler
\* that has nothing to do falls through to the while condition.
RunExcept(kind) ==
    IF feed_running /\ kind = "websocket" THEN reconnect
    ELSE /\ feed_pc' = IF feed_running THEN "sleep5" ELSE "returned"
         /\ UNCHANGED <<reconnect_attempts, delay, waits>>

\* The assignments of _connect once websockets.connect has returned.
connect_NoReset ==
    /\ ws' = "open"
    /\ orphaned' = (orphaned \/ ws = "open")
    /\ UNCHANGED reconnect_attempts

connect ==
    /\ ws' = "open"
    /\ orphaned' = (orphaned \/ ws = "open")
    /\ reconnect_attempts' = 0

\* The outcomes of websockets.connect: a connection, a WebSocketException
\* (a rejected handshake) or another exception (the network is unreachable).
ConnectOutcomes == {"ok", "websocket", "other"}

\* run, from the await of _connect in its loop: on success _listen starts and
\* waits for a message.
ConnectReturns(outcome) ==
    /\ feed_pc = "connecting"
    /\ IF outcome = "ok"
       THEN /\ connect
            /\ feed_pc' = "listening"
            /\ waits' = <<>>
            /\ UNCHANGED delay
       ELSE /\ RunExcept(outcome)
            /\ UNCHANGED <<ws, orphaned>>
    /\ UNCHANGED <<feed_running, calls, arrived, callbacks>>
    /\ UNCHANGED <<otherVars, cacheVars, evalVars, taskVars>>
    /\ UNCHANGED auxVars

\* _reconnect: asyncio.sleep(delay) is over, _connect is awaited.
BackoffElapsed ==
    /\ feed_pc = "backoff"
    /\ feed_pc' = "reconnecting"
    /\ waits' = Append(waits, delay)
    /\ UNCHANGED <<feed_running, ws, reconnect_attempts, delay, orphaned, calls,
                   arrived, callbacks>>
    /\ UNCHANGED <<otherVars, cacheVars, evalVars, taskVars>>
    /\ UNCHANGED auxVars

\* _reconnect, from the await of _connect: True goes back to run, whose loop
\* tests _running and calls _connect once more; a failure of any kind is
\* the recursive call.
ReconnectReturns(outcome) ==
    /\ feed_pc = "reconnecting"
    /\ IF outcome = "ok"
       THEN /\ connect
            /\ feed_pc' = IF feed_running THEN "connecting" ELSE "returned"
            /\ delay' = 0
            /\ waits' = <<>>
       ELSE /\ reconnect
            /\ UNCHANGED <<ws, orphaned>>
    /\ UNCHANGED <<feed_running, calls, arrived, callbacks>>
    /\ UNCHANGED <<otherVars, cacheVars, evalVars, taskVars>>
    /\ UNCHANGED auxVars

\* run: asyncio.sleep(5) of the clause for Exception is over.
SleepElapsed ==
    /\ feed_pc = "sleep5"
    /\ feed_pc' = IF feed_running THEN "connecting" ELSE "returned"
    /\ UNCHANGED <<feed_running, ws, reconnect_attempts, delay, orphaned, waits,
                   calls, arrived, callbacks>>
    /\ UNCHANGED <<otherVars, cacheVars, evalVars, taskVars>>
    /\ UNCHANGED auxVars

\* The ways the iteration over the connection ends: the connection was closed
\* cleanly (the iteration stops and _listen returns) or it failed
\* (ConnectionClosed is raised).
CloseCauses == {"closed_ok", "closed_error"}

ListenEnds(cause) ==
    /\ feed_pc = "listening"
    /\ ws' = "closed"
    /\ IF cause = "closed_ok"
       THEN /\ feed_pc' = IF feed_running THEN "connecting" ELSE "returned"
            /\ UNCHANGED <<reconnect_attempts, delay, waits>>
       ELSE RunExcept("websocket")
    /\ UNCHANGED <<feed_running, orphaned, calls, arrived, callbacks>>
    /\ UNCHANGED <<otherVars, cacheVars, evalVars, taskVars>>
    /\ UNCHANGED auxVars

\* An inbound text frame, described by what _handle_message and
\* _parse_kline_message look at: whether the text is JSON, whether it is the
\* combined-stream wrapper, the type of the payload, its event name e, its
\* member k, and in k the symbol s, the open time t and the prices (c).  For
\* a payload that is a string, e says whether the text contains the letter.
Kline(symbol, interval, bar, closed) ==
    [text |-> "json", wrapped |-> FALSE, top |-> "object", e |-> "kline",
     k |-> "object", s |-> "string", t |-> "int", c |-> "number",
     symbol |-> symbol, interval |-> interval, low |-> bar.low,
     close |-> bar.close, closed |-> closed]

\* _parse_kline_message: "candle", "None", or the exception that leaves it
\* (KeyError and ValueError are caught and give None).
parse_kline_message(data) ==
    IF data.top \in {"number", "null"} THEN "TypeError"        \* 'e' not in data
    ELSE IF data.top = "array" THEN "None"
    ELSE IF data.e = "absent" THEN "None"
    ELSE IF data.top = "string" THEN "TypeError"               \* data['e']
    ELSE IF data.e /= "kline" THEN "None"
    ELSE IF data.k = "absent" THEN "None"                      \* KeyError
    ELSE IF data.k = "null" THEN "TypeError"                   \* kline['s']
    ELSE IF data.s = "absent" THEN "None"                      \* KeyError
    ELSE IF data.s /= "string" THEN "AttributeError"           \* .upper()
    ELSE IF data.t = "absent" THEN "None"                      \* KeyError
    ELSE IF data.t = "null" THEN "TypeError"                   \* int(None)
    ELSE IF data.t = "text" THEN "None"                        \* ValueError
    ELSE IF data.c = "absent" THEN "None"                      \* KeyError
    ELSE IF data.c = "null" THEN "TypeError"                   \* float(None)
    ELSE IF data.c = "text" THEN "None"                        \* ValueError
    ELSE "candle"

\* _handle_message: "candle" when _process_candle is reached, "dropped" when
\* the message is given up, else the exception that leaves the method (only
\* json.JSONDecodeError is caught here).
handle_message(msg) ==
    IF msg.text /= "json" THEN "dropped"
    ELSE IF ~msg.wrapped /\ msg.top \in {"number", "null"}
         THEN "TypeError"                                      \* 'stream' in data
    ELSE IF parse_kline_message(msg) = "None" THEN "dropped"
    ELSE parse_kline_message(msg)

\* The callbacks _process_candle invokes for a closed candle, in order of
\* invocation; outcomes[i] tells whether the i-th registered callback raises.
Invoked_StopAtRaise(cbs, outcomes) ==
    LET n == IF \E i \in 1..Len(cbs) : outcomes[i]
             THEN CHOOSE i \in 1..Len(cbs) :
                      outcomes[i] /\ \A j \in 1..(i - 1) : ~outcomes[j]
             ELSE Len(cbs)
    IN  [i \in 1..n |-> i]

Invoked(cbs, outcomes) == [i \in 1..Len(cbs) |-> i]

\* The newest closed candle of a series as a callback finds it.
Newest(series) == IF series = <<>> THEN None ELSE Some(series[Len(series)])

CallRecords(invoked, outcomes, symbol, interval, candle, newest) ==
    [i \in 1..Len(invoked) |->
        [callback |-> invoked[i], symbol |-> symbol, interval |-> interval,
         candle |-> candle, raised |-> outcomes[invoked[i]], newest |-> newest]]

\* The outcomes of one round of callbacks: _on_candle_close does not raise.
CallbackOutcomes ==
    {o \in [1..Len(callbacks) -> BOOLEAN] :
        \A i \in 1..Len(callbacks) : callbacks[i] = "on_candle_close" => ~o[i]}

\* The Candle _parse_kline_message builds from a kline of the bar now forming.
ParsedCandle(msg) ==
    Candle(exch[<<msg.symbol, msg.interval>>], msg.low, msg.close, msg.closed)

\* _process_candle notifies the callbacks only for a closed candle.
Notifies_Always(candle) == TRUE

Notifies(candle) == candle.is_closed

\* One iteration of the loop of _listen: the break when the client was
\* stopped, else _handle_message; an exception that leaves _handle_message
\* leaves _listen and is handled by run.
Listen(msg, outcomes) ==
    /\ feed_pc = "listening"
    /\ ws = "open"
    /\ events < MaxEvents
    /\ events' = events + 1
    /\ IF ~feed_running
       THEN /\ feed_pc' = "returned"
            /\ UNCHANGED <<reconnect_attempts, delay, waits, calls, arrived, exch,
                           pending>>
            /\ UNCHANGED cacheVars
       ELSE /\ arrived' = Append(arrived, [result |-> handle_message(msg),
                                           symbol |-> msg.symbol,
                                           interval |-> msg.interval,
                                           timestamp |-> exch[<<msg.symbol, msg.interval>>],
                                           closed |-> msg.closed])
            /\ IF handle_message(msg) = "candle"
               THEN /\ process_candle(msg.symbol, msg.interval, ParsedCandle(msg))
                    /\ calls' = IF Notifies(ParsedCandle(msg))
                                THEN calls \o CallRecords(
                                         Invoked(callbacks, outcomes), outcomes,
                                         msg.symbol, msg.interval, ParsedCandle(msg),
                                         Newest(Buffer(msg.interval)'[msg.symbol]))
                                ELSE calls
                    /\ exch' = IF msg.closed
                               THEN [exch EXCEPT ![<<msg.symbol, msg.interval>>] = @ + 1]
                               ELSE exch
                    /\ UNCHANGED <<feed_pc, reconnect_attempts, delay, waits>>
               ELSE /\ IF handle_message(msg) = "dropped"
                       THEN UNCHANGED <<feed_pc, reconnect_attempts, delay, waits>>
                       ELSE RunExcept("other")
                    /\ UNCHANGED <<calls, exch, pending>>
                    /\ UNCHANGED cacheVars
    /\ UNCHANGED <<feed_running, ws, orphaned, callbacks>>
    /\ UNCHANGED <<funding_rates, boot, now, ticks, discord_enabled, inflight,
                   last_alerts, signals_sent, errors_count, evals, alerts>>
    /\ UNCHANGED taskVars
    /\ UNCHANGED auxVars

\* BinancePriceFeed.add_candle_callback, for a callback registered before the
\* system is started; each invocation of such a callback returns or raises.
add_candle_callback(callback) ==
    /\ boot = 0
    /\ feed_pc = "idle"
    /\ Len(callbacks) < MaxCallbacks
    /\ callbacks' = Append(callbacks, callback)
    /\ UNCHANGED <<feed_pc, feed_running, ws, reconnect_attempts, delay, orphaned,
                   waits, calls, arrived>>
    /\ UNCHANGED <<otherVars, cacheVars, evalVars, taskVars>>
    /\ UNCHANGED auxVars

----------------------------------------------------------------------------
(* The tasks of the orchestrator and its shutdown (src/main.py,            *)
(* src/funding_rates.py, src/liquidations.py)                              *)

\* fetch_all_funding_rates: symbols = ["BTC"] + self.altcoins
FundingSymbols == <<BtcSymbol>> \o SetToSeq({AltSymbol(a) : a \in Altcoins})

\* Mutant of start: the tasks are created without awaiting initialize_cache.
StartTasks_BeforeBackfill ==
    /\ app_pc = "startup"
    /\ app_pc' = "gather"
    /\ feed_running' = TRUE
    /\ feed_pc' = "connecting"
    /\ funding_running' = TRUE
    /\ funding_pc' = "fetching"
    /\ funding_i' = 1
    /\ liq_running' = liq_enabled
    /\ liq_pc' = IF liq_enabled THEN "fetching" ELSE "idle"
    /\ UNCHANGED <<ws, reconnect_attempts, delay, orphaned, waits, calls, arrived,
                   callbacks, stop_pc, stop_calls, liq_enabled>>
    /\ UNCHANGED <<otherVars, cacheVars, evalVars>>
    /\ UNCHANGED auxVars

\* BTCLagScalper.start, from the creation of the tasks to the await of
\* gather, and each new task up to its first await: run of the price feed
\* awaits _connect, run of a poller awaits its first request.  The
\* liquidation task is created only if the fetcher is enabled.
StartTasks ==
    /\ app_pc = "startup"
    /\ boot = Len(BackfillPlan)
    /\ app_pc' = "gather"
    /\ feed_running' = TRUE
    /\ feed_pc' = "connecting"
    /\ funding_running' = TRUE
    /\ funding_pc' = "fetching"
    /\ funding_i' = 1
    /\ liq_running' = liq_enabled
    /\ liq_pc' = IF liq_enabled THEN "fetching" ELSE "idle"
    /\ UNCHANGED <<ws, reconnect_attempts, delay, orphaned, waits, calls, arrived,
                   callbacks, stop_pc, stop_calls, liq_enabled>>
    /\ UNCHANGED <<otherVars, cacheVars, evalVars>>
    /\ UNCHANGED auxVars

\* BinancePriceFeed.stop as a function of the client's fields; failed tells
\* whether the call raises.
stop_NoGuard(client) ==
    [running |-> FALSE,
     ws |-> IF client.ws = "open" THEN "closed" ELSE client.ws,
     failed |-> client.ws = "none"]

stop(client) ==
    [running |-> FALSE,
     ws |-> IF client.ws = "open" THEN "closed" ELSE client.ws,
     failed |-> FALSE]

Client == [running |-> feed_running, ws |-> ws]

\* FundingRateFetcher.stop and LiquidationFetcher.stop
StopPollers ==
    /\ funding_running' = FALSE
    /\ liq_running' = FALSE

\* BTCLagScalper.stop, called by the signal handler's task: price_feed.stop()
\* runs at once; if it has a connection to close the call is suspended there,
\* otherwise it goes on to stop the pollers.
StopBegin ==
    /\ stop_calls < MaxStops
    /\ stop_pc = "idle"
    /\ stop_calls' = stop_calls + 1
    /\ feed_running' = stop(Client).running
    /\ ws' = stop(Client).ws
    /\ IF ws = "open"
       THEN /\ stop_pc' = "closing"
            /\ UNCHANGED <<funding_running, liq_running>>
       ELSE /\ StopPollers
            /\ UNCHANGED stop_pc
    /\ UNCHANGED <<feed_pc, reconnect_attempts, delay, orphaned, waits, calls,
                   arrived, callbacks, app_pc, funding_pc, funding_i, liq_pc,
                   liq_enabled>>
    /\ UNCHANGED <<otherVars, cacheVars, evalVars>>
    /\ UNCHANGED auxVars

\* BTCLagScalper.stop once the close of the connection has returned.
StopResume ==
    /\ stop_pc = "closing"
    /\ stop_pc' = "idle"
    /\ StopPollers
    /\ UNCHANGED <<app_pc, stop_calls, funding_pc, funding_i, liq_pc, liq_enabled>>
    /\ UNCHANGED <<otherVars, cacheVars, evalVars, feedVars>>
    /\ UNCHANGED auxVars

\* One request of fetch_all_funding_rates and the short sleep after it; after
\* the last symbol run sleeps for FUNDING_POLL_INTERVAL.
FundingFetchStep(reply) ==
    /\ funding_pc = "fetching"
    /\ IF reply /= None THEN set_funding_rate(FundingSymbols[funding_i], reply[1])
       ELSE UNCHANGED <<funding_rates, last_update>>
    /\ IF funding_i < Len(FundingSymbols)
       THEN /\ funding_i' = funding_i + 1
            /\ UNCHANGED funding_pc
       ELSE /\ funding_i' = 0
            /\ funding_pc' = "sleeping"
    /\ UNCHANGED <<candles_1m, candles_15m, current_1m, current_15m, writes,
                   boot, exch, events, now, ticks, discord_enabled>>
    /\ UNCHANGED <<app_pc, stop_pc, stop_calls, funding_running, liq_pc,
                   liq_running, liq_enabled>>
    /\ UNCHANGED <<evalVars, feedVars>>
    /\ UNCHANGED auxVars

\* FundingRateFetcher.run: the sleep is over and the while condition is read.
FundingWake ==
    /\ funding_pc = "sleeping"
    /\ funding_pc' = IF funding_running THEN "fetching" ELSE "returned"
    /\ funding_i' = IF funding_running THEN 1 ELSE 0
    /\ UNCHANGED <<app_pc, stop_pc, stop_calls, funding_running, liq_pc,
                   liq_running, liq_enabled>>
    /\ UNCHANGED <<otherVars, cacheVars, evalVars, feedVars>>
    /\ UNCHANGED auxVars

\* LiquidationFetcher.run: one fetch_all_liquidation_data, then the sleep of
\* LIQUIDATION_POLL_INTERVAL.  A disabled fetcher requests nothing; a reply
\* 403 disables the fetcher; data that parses replaces the symbol's entry.
LiquidationCycle(replies) ==
    /\ liq_pc = "fetching"
    /\ liq_pc' = "sleeping"
    /\ IF liq_enabled
       THEN /\ liq_enabled' = (\A s \in LiqSymbols : replies[s].status /= "403")
            /\ liq_cache' = [s \in LiqSymbols |->
                                IF fetch_liquidation_data(replies[s]) /= None
                                THEN fetch_liquidation_data(replies[s])
                                ELSE liq_cache[s]]
       ELSE UNCHANGED <<liq_enabled, liq_cache>>
    /\ UNCHANGED <<app_pc, stop_pc, stop_calls, funding_pc, funding_running,
                   funding_i, liq_running>>
    /\ UNCHANGED <<otherVars, cacheVars, evalVars, feedVars>>
    /\ UNCHANGED <<cooldown_ops, applied>>

LiquidationWake ==
    /\ liq_pc = "sleeping"
    /\ liq_pc' = IF liq_running THEN "fetching" ELSE "returned"
    /\ UNCHANGED <<app_pc, stop_pc, stop_calls, funding_pc, funding_running,
                   funding_i, liq_running, liq_enabled>>
    /\ UNCHANGED <<otherVars, cacheVars, evalVars, feedVars>>
    /\ UNCHANGED auxVars

FeedEnded == feed_pc \in {"gave_up", "returned"}
FundingEnded == funding_pc = "returned"
LiquidationEnded == liq_pc \in {"idle", "returned"}

\* BTCLagScalper.start: gather returns when every task has ended, and the
\* finally clause calls stop.
GatherReturns ==
    /\ app_pc = "gather"
    /\ FeedEnded /\ FundingEnded /\ LiquidationEnded
    /\ app_pc' = "exited"
    /\ stop_calls' = stop_calls + 1
    /\ feed_running' = stop(Client).running
    /\ ws' = stop(Client).ws
    /\ StopPollers
    /\ UNCHANGED <<feed_pc, reconnect_attempts, delay, orphaned, waits, calls,
                   arrived, callbacks, stop_pc, funding_pc, funding_i, liq_pc,
                   liq_enabled>>
    /\ UNCHANGED <<otherVars, cacheVars, evalVars>>
    /\ UNCHANGED auxVars

----------------------------------------------------------------------------
(* Specifications of the connection, of the listening loop and of shutdown *)

Connect == \E outcome \in ConnectOutcomes : ConnectReturns(outcome)
Reconnect == \E outcome \in {"ok", "other"} : ReconnectReturns(outcome)
Drop == \E cause \in CloseCauses : ListenEnds(cause)

\* A closing update of the tracked asset's 1m bar, and an update whose open
\* time is null.
ClosingUpdate == Kline(AltSymbol("SUI"), "1m", [low |-> 96, close |-> 96], TRUE)
ConnMessages == {ClosingUpdate, [ClosingUpdate EXCEPT !.t = "null"]}

ListenConn ==
    \E msg \in ConnMessages : \E outcomes \in CallbackOutcomes : Listen(msg, outcomes)

\* The messages of the listening loop: an update (open or closing) of each
\* stream, the same in the combined-stream wrapper, and the malformed ones.
UpdateBar(symbol, interval) == CHOOSE bar \in LiveBars(symbol, interval) : TRUE

Updates ==
    {Kline(k[1], k[2], UpdateBar(k[1], k[2]), closed) : k \in Keys, closed \in BOOLEAN}
        \cup {[ClosingUpdate EXCEPT !.wrapped = TRUE]}

Malformed ==
    {[ClosingUpdate EXCEPT !.text = "garbage"],
     [ClosingUpdate EXCEPT !.top = "array"],
     [ClosingUpdate EXCEPT !.top = "number"],
     [ClosingUpdate EXCEPT !.top = "null"],
     [ClosingUpdate EXCEPT !.top = "string", !.e = "absent"],
     [ClosingUpdate EXCEPT !.top = "string"],
     [ClosingUpdate EXCEPT !.wrapped = TRUE, !.top = "null"],
     [ClosingUpdate EXCEPT !.e = "absent"],
     [ClosingUpdate EXCEPT !.e = "other"],
     [ClosingUpdate EXCEPT !.k = "absent"],
     [ClosingUpdate EXCEPT !.k = "null"],
     [ClosingUpdate EXCEPT !.s = "absent"],
     [ClosingUpdate EXCEPT !.s = "number"],
     [ClosingUpdate EXCEPT !.t = "absent"],
     [ClosingUpdate EXCEPT !.t = "null"],
     [ClosingUpdate EXCEPT !.t = "text"],
     [ClosingUpdate EXCEPT !.c = "absent"],
     [ClosingUpdate EXCEPT !.c = "null"],
     [ClosingUpdate EXCEPT !.c = "text"]}

Register == add_candle_callback("probe")

Established == ConnectReturns("ok")

ListenAny ==
    \E msg \in Updates \cup Malformed :
        \E outcomes \in CallbackOutcomes : Listen(msg, outcomes)

\* The listening loop on connections that are established at the first try.
NextListen ==
    \/ Register \/ BackfillDip \/ StartTasks \/ Established \/ ListenAny
    \/ SleepElapsed

SpecListen == InitStore /\ [][NextListen]_vars

NextConn ==
    \/ BackfillDip \/ StartTasks \/ Connect \/ BackoffElapsed \/ Reconnect
    \/ SleepElapsed \/ Drop \/ ListenConn \/ StopBegin \/ StopResume

SpecConn == InitStore /\ [][NextConn]_vars

\* The replies to a request of the funding poller in the shutdown
\* specification: a failed request or a rate.
ShutdownReplies == {None, Some(-5)}

FundingPoll == \E reply \in ShutdownReplies : FundingFetchStep(reply)
\* The liquidation endpoint refuses (403) or fails.
LiquidationPoll ==
    \E status \in {"403", "error"} :
        LiquidationCycle([s \in LiqSymbols |-> [status |-> status]])

\* Startup, the three tasks and the shutdown request.
NextShutdown ==
    \/ BackfillDip \/ StartTasks \/ Connect \/ BackoffElapsed \/ Reconnect
    \/ SleepElapsed \/ Drop \/ StopBegin \/ StopResume \/ FundingPoll
    \/ FundingWake \/ LiquidationPoll \/ LiquidationWake \/ GatherReturns

InitShutdown == Init /\ discord_enabled = FALSE

\* Every coroutine that is ready is eventually resumed by the event loop:
\* startup goes on, a sleep ends, a request or a connection attempt returns
\* (each has a timeout), and a connection that is listened to eventually
\* ends.  Only the arrival of the shutdown request is left unconstrained.
FairShutdown ==
    /\ WF_vars(BackfillDip) /\ WF_vars(StartTasks) /\ WF_vars(Connect)
    /\ WF_vars(BackoffElapsed) /\ WF_vars(Reconnect) /\ WF_vars(SleepElapsed)
    /\ WF_vars(Drop) /\ WF_vars(StopResume) /\ WF_vars(FundingPoll)
    /\ WF_vars(FundingWake) /\ WF_vars(LiquidationPoll)
    /\ WF_vars(LiquidationWake) /\ WF_vars(GatherReturns)

SpecShutdown == InitShutdown /\ [][NextShutdown]_vars /\ FairShutdown

----------------------------------------------------------------------------
(* The cooldown manager on its own (src/cooldown.py)                       *)

CooldownOp(op, altcoin) == [op |-> op, altcoin |-> altcoin, at |-> now]

\* A call of record_alert(altcoin).
RecordAlert(altcoin) ==
    /\ Len(cooldown_ops) < MaxOps
    /\ last_alerts' = record_alert(altcoin)
    /\ cooldown_ops' = Append(cooldown_ops, CooldownOp("record", altcoin))
    /\ UNCHANGED <<pending, inflight, signals_sent, errors_count, evals, alerts>>
    /\ UNCHANGED <<otherVars, cacheVars, feedVars, taskVars, applied, liq_cache>>

\* A call of clear_cooldown(altcoin).
ClearCooldown(altcoin) ==
    /\ Len(cooldown_ops) < MaxOps
    /\ last_alerts' = clear_cooldown(altcoin)
    /\ cooldown_ops' = Append(cooldown_ops, CooldownOp("clear", altcoin))
    /\ UNCHANGED <<pending, inflight, signals_sent, errors_count, evals, alerts>>
    /\ UNCHANGED <<otherVars, cacheVars, feedVars, taskVars, applied, liq_cache>>

\* A call of clear_all().
ClearAll ==
    /\ Len(cooldown_ops) < MaxOps
    /\ last_alerts' = clear_all
    /\ cooldown_ops' = Append(cooldown_ops, CooldownOp("clear_all", ""))
    /\ UNCHANGED <<pending, inflight, signals_sent, errors_count, evals, alerts>>
    /\ UNCHANGED <<otherVars, cacheVars, feedVars, taskVars, applied, liq_cache>>

\* time.time() advances by d seconds between two calls.
Elapse(d) ==
    /\ ticks < MaxElapses
    /\ now' = now + d
    /\ ticks' = ticks + 1
    /\ UNCHANGED <<funding_rates, boot, exch, events, discord_enabled>>
    /\ UNCHANGED <<cacheVars, evalVars, feedVars, taskVars, auxVars>>

\* Half a cooldown window at a time: a stamp is 0, 1/2, 1, 3/2 windows old.
ElapseSteps == {ALERT_COOLDOWN_SECONDS \div 2}

Record == \E altcoin \in AssetNames : RecordAlert(altcoin)
Clear == \E altcoin \in AssetNames : ClearCooldown(altcoin)
TimePasses == \E d \in ElapseSteps : Elapse(d)

NextCooldown == Record \/ Clear \/ ClearAll \/ TimePasses

SpecCooldown == InitStore /\ [][NextCooldown]_vars

----------------------------------------------------------------------------
(* The listener and the evaluations it schedules (src/main.py)             *)

NextSchedule == BackfillDip \/ Receive \/ EvaluateAny \/ TelegramReply

SpecSchedule == InitStore /\ [][NextSchedule]_vars

----------------------------------------------------------------------------
(* The strategy functions on their own: the cache holds closed bars drawn   *)
(* from small sets, as after a backfill, and one step applies the function. *)

\* Closed bars, one a minute, with the given lows and closes (oldest first).
Bars(lows, closes) ==
    [i \in 1..Len(lows) |->
        Candle(FirstForming - Len(lows) - 1 + i, lows[i], closes[i], TRUE)]

\* The sequences over S of a length in lens.
SeqsOf(S, lens) == UNION {[1..n -> S] : n \in lens}

\* The cache holds the closed bars c1m and c15m and no bar in progress.
StoreHolding(c1m, c15m) ==
    /\ candles_1m = c1m
    /\ candles_15m = c15m
    /\ current_1m = [s \in Symbols |-> None]
    /\ current_15m = [s \in Symbols |-> None]
    /\ last_update = {k \in Keys : (IF k[2] = "1m" THEN c1m ELSE c15m)[k[1]] /= <<>>}
    /\ writes = [k \in Keys |-> (IF k[2] = "1m" THEN c1m ELSE c15m)[k[1]]]

\* The program after its backfill, about to apply the function fn.
InitAfterBackfill(fn) ==
    /\ InitOutsideStore
    /\ discord_enabled = FALSE
    /\ boot = Len(BackfillPlan)
    /\ applied = [fn |-> fn, result |-> None]

\* The same, no Coinglass key configured.
InitApplying(fn) == InitAfterBackfill(fn) /\ liq_enabled = FALSE

\* The function is applied once; it reads the cache and changes nothing.
Apply(result) ==
    /\ applied.result = None
    /\ applied' = [applied EXCEPT !.result = Some(result)]
    /\ UNCHANGED <<cacheVars, evalVars, feedVars, taskVars, otherVars, cooldown_ops,
                   liq_cache>>

\* Lows of the BTC 1m bars.
StabLows == 7..11

InitStabilizing ==
    /\ \E lows \in SeqsOf(StabLows, 0..MaxBtcBars) :
         StoreHolding([s \in Symbols |-> IF s = BtcSymbol THEN Bars(lows, lows) ELSE <<>>],
                      [s \in Symbols |-> <<>>])
    /\ InitApplying("is_btc_stabilizing")

\* is_btc_stabilizing() with its default argument, and the is_stabilizing
\* field of get_btc_status(), which passes its own list of candles.
ApplyStabilizing ==
    Apply([is_stabilizing |-> is_btc_stabilizing(get_btc_candles_1m(5)),
           status |-> get_btc_status.is_stabilizing])

NextStabilizing == ApplyStabilizing

SpecStabilizing == InitStabilizing /\ [][NextStabilizing]_vars

\* Closes of a 1m history of n bars: the bar 60 from the end closes at old,
\* the last bar at new, the others, the bar before the window too, elsewhere.
HourCloses(n, old, new) ==
    [i \in 1..n |-> IF i = n THEN new ELSE IF i = n - 59 THEN old ELSE old + 7]

HourBars(n, old, new) == Bars(HourCloses(n, old, new), HourCloses(n, old, new))

HourLens == {59, 60, 61}
AltHourCloses == {950, 962, 970, 975, 980, 990, 1000, 1010}
BtcHourCloses == {970, 980, 985, 990, 995, 1000, 1005}

InitUnderperformance ==
    /\ \E n_alt \in HourLens, n_btc \in HourLens :
         \E alt_new \in AltHourCloses, btc_new \in BtcHourCloses :
            StoreHolding([s \in Symbols |-> IF s = BtcSymbol
                                               THEN HourBars(n_btc, 1000, btc_new)
                                               ELSE HourBars(n_alt, 1000, alt_new)],
                         [s \in Symbols |-> <<>>])
    /\ InitApplying("calculate_underperformance")

\* calculate_underperformance(altcoin, btc_status.change_1h), as check_signal
\* calls it.
ApplyUnderperformance ==
    \E altcoin \in Altcoins :
        Apply([altcoin |-> altcoin,
               btc_change_1h |-> get_btc_status.change_1h,
               underperf |-> calculate_underperformance(altcoin, get_btc_status.change_1h)])

NextUnderperformance == ApplyUnderperformance

SpecUnderperformance == InitUnderperformance /\ [][NextUnderperformance]_vars

\* Altcoin 15m closes against a BTC close of 1000 throughout: no bars, too few
\* for RSI(14), flat (RSI 100), falling (RSI 0), one rise of 7 and thirteen
\* falls of 1 (RSI exactly 35), one rise of 6 and thirteen falls of 1
\* (RSI 600/19, below 35).
RatioShapes ==
    { <<>>,
      [i \in 1..3 |-> 100],
      [i \in 1..16 |-> 100],
      [i \in 1..16 |-> 116 - i],
      [i \in 1..15 |-> IF i = 1 THEN 100 ELSE 109 - i],
      [i \in 1..15 |-> IF i = 1 THEN 100 ELSE 108 - i] }

\* The latest 1m close of a symbol: none yet, or a price.
AltPrices == {None} \cup {Some(p) : p \in 99..102}
BtcPrices == {None, Some(0), Some(1000)}

PriceBars(price) == IF price = None THEN <<>> ELSE Bars(price, price)

InitRatio ==
    /\ \E alt_closes \in RatioShapes, alt_price \in AltPrices, btc_price \in BtcPrices :
         StoreHolding([s \in Symbols |-> IF s = BtcSymbol THEN PriceBars(btc_price)
                                                          ELSE PriceBars(alt_price)],
                      [s \in Symbols |-> IF s = BtcSymbol
                                            THEN Bars([i \in 1..16 |-> 1000],
                                                      [i \in 1..16 |-> 1000])
                                            ELSE Bars(alt_closes, alt_closes)])
    /\ InitApplying("analyze_ratio")

\* analyze_ratio(altcoin), as check_signal calls it.
ApplyRatio ==
    \E altcoin \in Altcoins :
        Apply([altcoin |-> altcoin,
               ratio |-> analyze_ratio(altcoin,
                                       DebugLineCompletes(get_ratio_rsi(altcoin, RSI_PERIOD)))])

NextRatio == ApplyRatio

SpecRatio == InitRatio /\ [][NextRatio]_vars

\* 15m closes of the altcoin and of BTC, of up to MaxRatioBars bars each; a
\* BTC close of exactly 0 is among them.
AltCloses15m == {2, 3}
BtcCloses15m == {0, 1, 2}

InitRatioSeries ==
    /\ \E alt_closes \in SeqsOf(AltCloses15m, 0..MaxRatioBars) :
         \E btc_closes \in SeqsOf(BtcCloses15m, 0..MaxRatioBars) :
            StoreHolding([s \in Symbols |-> <<>>],
                         [s \in Symbols |-> IF s = BtcSymbol
                                               THEN Bars(btc_closes, btc_closes)
                                               ELSE Bars(alt_closes, alt_closes)])
    /\ InitApplying("calculate_ratio_series")

\* calculate_ratio_series(altcoin)
ApplyRatioSeries ==
    \E altcoin \in Altcoins :
        Apply([altcoin |-> altcoin, ratios |-> calculate_ratio_series(altcoin)])

NextRatioSeries == ApplyRatioSeries

SpecRatioSeries == InitRatioSeries /\ [][NextRatioSeries]_vars

----------------------------------------------------------------------------
(* The signal check on its own: markets drawn from small sets, the funding  *)
(* poller, and one call of check_signal.                                    *)

\* BTC 1m bars: the close 60 bars from the end is 1000, the last close is
\* last; the bar before the last has the lowest low, and the last bar's low
\* is above it exactly when stabilizing.
BtcHourLows(n, last, stabilizing) ==
    [i \in 1..n |-> IF i = n - 1 THEN 900
                    ELSE IF i = n THEN (IF stabilizing THEN last ELSE 800)
                    ELSE HourCloses(n, 1000, last)[i]]

\* Altcoin 15m closes around the altcoin's price p: flat at p (RSI 100, at
\* the low), falling to p (RSI 0, at the low), falling to p - 10 (RSI 0, the
\* price far above the low), rising to p (RSI 100, far above the low).
RatioTrends == {"flat", "falling", "fell_below", "rising"}

TrendCloses(trend, p) ==
    [i \in 1..16 |-> CASE trend = "flat" -> p
                       [] trend = "falling" -> p + 16 - i
                       [] trend = "fell_below" -> p + 6 - i
                       [] OTHER -> p - 16 + i]

SignalLens == {59, 60}
BtcLastCloses == {990, 1000}
AltLastCloses == {96, 97, 98, 100}

\* The funding rates the endpoint reports, in hundredths of a percent, around
\* the floor (-8), the squeeze band (-8 to -3) and the crowded level (5).
FundingRates == {-9, -8, -7, -3, -2, 5, 6}

InitSignal ==
    /\ \E n_btc \in SignalLens, n_alt \in SignalLens, stabilizing \in BOOLEAN :
         \E btc_last \in BtcLastCloses, alt_last \in AltLastCloses, trend \in RatioTrends :
            StoreHolding(
                [s \in Symbols |->
                    IF s = BtcSymbol
                    THEN Bars(BtcHourLows(n_btc, btc_last, stabilizing),
                              HourCloses(n_btc, 1000, btc_last))
                    ELSE HourBars(n_alt, 100, alt_last)],
                [s \in Symbols |->
                    IF s = BtcSymbol
                    THEN Bars([i \in 1..16 |-> btc_last], [i \in 1..16 |-> btc_last])
                    ELSE Bars(TrendCloses(trend, alt_last), TrendCloses(trend, alt_last))])
    /\ InitApplying("check_signal")

\* The funding poller stores a rate for the tracked asset.
PollRates ==
    \E altcoin \in Altcoins : \E rate \in FundingRates :
        FetchFundingRate(AltSymbol(altcoin), Some(rate))

\* check_signal(altcoin), the outcome of analyze_ratio's debug line left open,
\* and check_funding_rate(altcoin) in the same state.
ApplySignal ==
    \E altcoin \in Altcoins : \E debug_line_ok \in BOOLEAN :
        Apply([altcoin |-> altcoin,
               debug_line_ok |-> debug_line_ok,
               funding |-> check_funding_rate(altcoin),
               signal |-> check_signal(altcoin, debug_line_ok)])

NextSignal == PollRates \/ ApplySignal

SpecSignal == InitSignal /\ [][NextSignal]_vars

\* The signal check next to the liquidation poller: a market in which the
\* other stages pass or the spread stage fails, a Coinglass key configured or
\* not, and the poller's cycles once the tasks are started.
InitLiquidations ==
    /\ \E alt_last \in {96, 100} :
         StoreHolding(
             [s \in Symbols |->
                 IF s = BtcSymbol
                 THEN Bars(BtcHourLows(60, 990, TRUE), HourCloses(60, 1000, 990))
                 ELSE HourBars(60, 100, alt_last)],
             [s \in Symbols |->
                 IF s = BtcSymbol
                 THEN Bars([i \in 1..16 |-> 990], [i \in 1..16 |-> 990])
                 ELSE Bars(TrendCloses("falling", alt_last),
                           TrendCloses("falling", alt_last))])
    /\ InitAfterBackfill("check_signal")

LiqLevel(price, long_value, short_value) ==
    [price |-> price, longLiquidationUsd |-> long_value,
     shortLiquidationUsd |-> short_value]

\* Replies of the liquidation endpoint: refused, failed, data without a
\* price, data with a cluster on each side within its band, data whose
\* clusters are all out of the bands.
LiqReplies ==
    { [status |-> "403"],
      [status |-> "error"],
      [status |-> "200", price |-> 0, levels |-> <<>>],
      [status |-> "200", price |-> 100,
       levels |-> <<LiqLevel(99, 2, 0), LiqLevel(101, 0, 3)>>],
      [status |-> "200", price |-> 100,
       levels |-> <<LiqLevel(90, 2, 0), LiqLevel(110, 0, 3)>>] }

LiquidationFetch ==
    \E replies \in [LiqSymbols -> LiqReplies] : LiquidationCycle(replies)

NextLiquidations == StartTasks \/ LiquidationFetch \/ LiquidationWake \/ ApplySignal

SpecLiquidations == InitLiquidations /\ [][NextLiquidations]_vars

\* A pure function of its arguments alone: the program as constructed, about
\* to apply fn to input.
InitApplyingTo(fn, input) ==
    /\ EmptyStore
    /\ InitOutsideStore
    /\ discord_enabled = FALSE
    /\ liq_enabled = FALSE
    /\ boot = 0
    /\ applied = [fn |-> fn, input |-> input, result |-> None]

\* Responses of the liquidation endpoint at a price of 200: up to MaxLevels
\* levels 2 %, 1.5 % and 0.5 % below and 0.5 %, 2 % and 2.5 % above, each with
\* equal long and short values of 0, 1 or 2.
LevelPrices == {196, 197, 199, 201, 204, 205}
LevelValues == 0..2
LiqLevels == {LiqLevel(price, v, v) : price \in LevelPrices, v \in LevelValues}

InitClusters ==
    \E levels \in SeqsOf(LiqLevels, 0..MaxLevels) :
        InitApplyingTo("check_liquidations",
                       [status |-> "200", price |-> 200, levels |-> levels])

\* _parse_liquidation_data on the response, then check_liquidations on the
\* data it returns.
ApplyClusters ==
    Apply(LiquidationCheck(TRUE, TRUE, fetch_liquidation_data(applied.input)))

NextClusters == ApplyClusters

SpecClusters == InitClusters /\ [][NextClusters]_vars

\* calculate_rsi on every list of up to MaxRsiCloses closes over three prices,
\* for the periods 1 to MaxRsiPeriod.
RsiCloses == {1, 2, 3}

InitRsi ==
    \E closes \in SeqsOf(RsiCloses, 0..MaxRsiCloses), period \in 1..MaxRsiPeriod :
        InitApplyingTo("calculate_rsi", [closes |-> closes, period |-> period])

ApplyRsi ==
    Apply(calculate_rsi([i \in 1..Len(applied.input.closes) |->
                            FInt(applied.input.closes[i])],
                        applied.input.period))

NextRsi == ApplyRsi

SpecRsi == InitRsi /\ [][NextRsi]_vars

----------------------------------------------------------------------------
(* Properties of the candle cache                                          *)

ClosedWrites(key) == SelectSeq(writes[key], LAMBDA c : c.is_closed)
Series(key) == Buffer(key[2])[key[1]]
Slot(key) == Current(key[2])[key[1]]

\* C1: every series is at most its capacity long (100 for 1m, 50 for 15m) and
\* holds exactly the most recent closed bars written to its key, in the order
\* they were written; once more than capacity bars were written these are the
\* last `capacity` of them.
C1_RollingSeries ==
    \A key \in Keys :
        /\ Len(Series(key)) <= BufferSize(key[2])
        /\ Series(key) = LastN(ClosedWrites(key), BufferSize(key[2]))

\* C1 witness: more closed bars were written to a 1m key than its capacity,
\* and likewise to a 15m key.
C1_Witness ==
    /\ \E s \in Symbols : Len(ClosedWrites(<<s, "1m">>)) > CANDLES_1M_BUFFER
    /\ \E s \in Symbols : Len(ClosedWrites(<<s, "15m">>)) > CANDLES_15M_BUFFER

NewWrites(key) == SubSeq(writes'[key], Len(writes[key]) + 1, Len(writes'[key]))

\* C2: a step that writes one closed bar to a key appends it to that key's
\* series (dropping the oldest bar of a full series) and empties the key's
\* in-progress slot; a step that writes one open bar replaces the key's slot
\* and leaves its series alone; the series and slot of every key that was not
\* written are unchanged.
C2_WriteFrame ==
    [][\A key \in Keys :
          LET new == NewWrites(key)
              series == Series(key)
              seriesAfter == (Series(key))'
              slotAfter == (Slot(key))'
          IN  /\ new = <<>> => seriesAfter = series /\ slotAfter = Slot(key)
              /\ Len(new) = 1 /\ new[1].is_closed =>
                    /\ seriesAfter = LastN(Append(series, new[1]), BufferSize(key[2]))
                    /\ slotAfter = None
              /\ Len(new) = 1 /\ ~new[1].is_closed =>
                    /\ seriesAfter = series
                    /\ slotAfter = Some(new[1])]_vars

\* C2 witness: a key whose slot was filled by an open bar and then emptied by
\* a closed bar, while another key holds a series of its own.
C2_Witness ==
    \E key \in Keys :
        /\ Len(writes[key]) >= 2
        /\ ~writes[key][Len(writes[key]) - 1].is_closed
        /\ writes[key][Len(writes[key])].is_closed
        /\ Slot(key) = None
        /\ \E other \in Keys \ {key} : Series(other) /= <<>>

\* C3: the latest price of a symbol is the close of the bar most recently
\* written to its 1m key, open or closed (the in-progress bar if one is
\* present, otherwise the last closed bar), and None when nothing was written.
C3_LatestPrice ==
    \A s \in Symbols :
        LET w == writes[<<s, "1m">>]
        IN  get_current_price(s) = IF w = <<>> THEN None ELSE Some(w[Len(w)].close)

\* C3 witness: a closed bar was written right after an open snapshot with a
\* different close, and the latest price is the closed bar's close.
C3_Witness ==
    \E s \in Symbols :
        LET w == writes[<<s, "1m">>]
        IN  /\ Len(w) >= 2
            /\ w[Len(w)].is_closed
            /\ ~w[Len(w) - 1].is_closed
            /\ w[Len(w) - 1].close /= w[Len(w)].close
            /\ get_current_price(s) = Some(w[Len(w)].close)

\* C4: for every n >= 0, closes(symbol, timeframe, n) has exactly
\* min(n, length of the series) elements: the closes of the most recent
\* closed bars, oldest first.
C4_ClosesCount ==
    \A s \in Symbols : \A n \in 0..MaxCount :
        /\ Len(get_closes_1m(s, Some(n))) = Min2(n, Len(candles_1m[s]))
        /\ Len(get_closes_15m(s, Some(n))) = Min2(n, Len(candles_15m[s]))

\* C5: within every series the bar timestamps are strictly increasing.
C5_StrictlyIncreasing ==
    \A key \in Keys :
        \A i \in 1..(Len(Series(key)) - 1) :
            Series(key)[i].timestamp < Series(key)[i + 1].timestamp

----------------------------------------------------------------------------
(* Properties of the evaluation pipeline and the alert dispatch            *)

\* A step in which one check_signal call finished.
EvalStep == pending /= <<>> /\ Len(evals') = Len(evals) + 1
NewEval == evals'[Len(evals')]

\* The gates of check_signal, stated on the stored bars, the funding rate and
\* the cooldown record.
CooldownAllows(a) ==
    last_alerts[a] = None \/ now - last_alerts[a][1] >= ALERT_COOLDOWN_SECONDS

HourAgo(symbol) == candles_1m[symbol][Len(candles_1m[symbol]) - 59].close
Latest(symbol) == candles_1m[symbol][Len(candles_1m[symbol])].close

\* 1h change of a symbol as <<num, den>>: 0 with fewer than 60 bars or a
\* zero starting price.
HourChange(symbol) ==
    IF Len(candles_1m[symbol]) >= 60 /\ HourAgo(symbol) > 0
    THEN <<100 * (Latest(symbol) - HourAgo(symbol)), HourAgo(symbol)>>
    ELSE <<0, 1>>

BaseDipped ==
    /\ Len(candles_1m[BtcSymbol]) >= 60
    /\ 2 * HourChange(BtcSymbol)[1] <= -HourChange(BtcSymbol)[2]

BaseStabilizing ==
    LET c == candles_1m[BtcSymbol]
        n == Len(c)
    IN  n >= 5 /\ \E i \in (n - 4)..(n - 1) : c[n].low > c[i].low

SpreadAtThreshold(a) ==
    LET ac == HourChange(AltSymbol(a))
        bc == HourChange(BtcSymbol)
    IN  ac[1] * bc[2] - bc[1] * ac[2] <= -(ac[2] * bc[2])

RatioStagePasses(a) ==
    LET rsi == get_ratio_rsi(a, RSI_PERIOD)
        low == get_ratio_24h_low(a)
        cur == get_current_ratio(a)
    IN  /\ cur /= None
        /\ \/ rsi /= None /\ FLt(rsi[1], FInt(RATIO_RSI_OVERSOLD))
           \/ low /= None /\ low[1][1] /= 0
                           /\ FLeq(FMul(cur[1], FInt(100)), FMul(low[1], FInt(101)))

FundingValid(a) ==
    \/ funding_rates[AltSymbol(a)] = None
    \/ funding_rates[AltSymbol(a)][1] > FUNDING_RATE_MIN

PriceAvailable(a) == writes[<<AltSymbol(a), "1m">>] /= <<>>

GatesHold(a) ==
    /\ CooldownAllows(a)
    /\ BaseDipped
    /\ BaseStabilizing
    /\ SpreadAtThreshold(a)
    /\ RatioStagePasses(a)
    /\ FundingValid(a)
    /\ PriceAvailable(a)

\* C6: a check_signal call returns a Signal only if, in the state it read,
\* the cooldown allowed the asset, BTC's 1h change was at or below the
\* minimum drop, BTC was stabilizing, the spread was at or below the
\* underperformance threshold, the ratio stage passed (oversold or near the
\* low), the funding rate was valid and a current price was available; and a
\* task enters _send_alert only from a call that returned a Signal.
C6_SignalOnlyIfGates ==
    [][/\ EvalStep /\ NewEval.outcome = "signal" => GatesHold(Head(pending))
       /\ Len(inflight') > Len(inflight) => EvalStep /\ NewEval.outcome = "signal"]_vars

\* C6 witness: one evaluation returned a Signal and another one was stopped
\* by the funding gate.
C6_Witness ==
    /\ \E i \in 1..Len(evals) : evals[i].outcome = "signal"
    /\ \E i \in 1..Len(evals) : evals[i].stage = "funding"

\* C7: no evaluation of a tracked asset ends in an exception: every
\* check_signal call ends in a Signal or in no signal.
C7_NeverRaises ==
    \A i \in 1..Len(evals) : evals[i].outcome /= "error"

\* C8: an evaluation that reads a state in which every stage passes yields a
\* Signal, and an evaluation of an asset less than one cooldown period after
\* an evaluation of that asset yielded a Signal yields no signal.
C8_OneSignalThenNone ==
    [][EvalStep =>
          /\ GatesHold(Head(pending)) => NewEval.outcome = "signal"
          /\ (\E i \in 1..Len(evals) :
                  /\ evals[i].altcoin = Head(pending)
                  /\ evals[i].outcome = "signal"
                  /\ now - evals[i].at < ALERT_COOLDOWN_SECONDS)
              => NewEval.outcome = "none"]_vars

Delivered(d) == d.telegram_success \/ d.discord_success

\* C9: two alerts delivered for the same asset are at least one cooldown
\* period apart.
C9_AlertsSpaced ==
    \A i, j \in 1..Len(alerts) :
        /\ i < j
        /\ alerts[i].altcoin = alerts[j].altcoin
        /\ Delivered(alerts[i])
        /\ Delivered(alerts[j])
        => alerts[j].at - alerts[i].at >= ALERT_COOLDOWN_SECONDS

\* A step in which one _send_alert call finished.
SendStep == Len(alerts') = Len(alerts) + 1
NewSend == alerts'[Len(alerts')]

\* C10: when _send_alert finishes with both channels failed, no cooldown is
\* recorded, the error counter grows by one and the sent counter is
\* unchanged; when it finishes with at least one channel succeeded, the
\* asset's cooldown is recorded at the current time (and no other asset's),
\* the sent counter grows by one and the error counter is unchanged; no other
\* step records a cooldown or changes the sent counter.
C10_SendAlertAccounting ==
    [][/\ SendStep /\ ~Delivered(NewSend) =>
             /\ last_alerts' = last_alerts
             /\ errors_count' = errors_count + 1
             /\ signals_sent' = signals_sent
       /\ SendStep /\ Delivered(NewSend) =>
             /\ last_alerts' = [last_alerts EXCEPT ![NewSend.altcoin] = Some(now)]
             /\ signals_sent' = signals_sent + 1
             /\ errors_count' = errors_count
       /\ ~SendStep =>
             /\ last_alerts' = last_alerts
             /\ signals_sent' = signals_sent]_vars

\* C10 witness: one Signal failed on both channels and was counted as an
\* error, another one failed on Telegram, reached Discord and was counted as
\* sent with its cooldown recorded.
C10_Witness ==
    /\ \E i \in 1..Len(alerts) : ~Delivered(alerts[i])
    /\ \E i \in 1..Len(alerts) :
          /\ ~alerts[i].telegram_success
          /\ alerts[i].discord_success
          /\ last_alerts[alerts[i].altcoin] /= None
    /\ errors_count >= 1
    /\ signals_sent >= 1

----------------------------------------------------------------------------
(* Properties of the stream client's connection                            *)

\* C11: in the Reconnecting procedure the k-th wait since the last
\* successful connect lasts min(1 * 2^(k-1), 60) seconds, a connection attempt
\* of the procedure starts only when its wait is over, the attempt counter
\* stays within 0..10, the client gives up only after ten waits, and once it
\* has given up it makes no further attempt.
C11_BackoffSchedule ==
    /\ [](/\ reconnect_attempts \in 0..10
          /\ Len(waits) <= 10
          /\ \A k \in 1..Len(waits) : waits[k] = Min2(1 * 2^(k - 1), 60)
          /\ feed_pc = "backoff" => Len(waits) = reconnect_attempts - 1
          /\ feed_pc = "reconnecting" => Len(waits) = reconnect_attempts
          /\ feed_pc = "gave_up" => Len(waits) = 10)
    /\ [][/\ (feed_pc' = "reconnecting" /\ feed_pc /= "reconnecting")
              => (feed_pc = "backoff" /\ waits' = Append(waits, delay))
          /\ feed_pc = "gave_up" => feed_pc' = "gave_up"]_vars

C11_Witness ==
    /\ feed_pc = "gave_up"
    /\ Len(waits) = 10
    /\ waits[6] = 32
    /\ waits[7] = 60

\* C12: whenever the listening phase of an established connection ends while
\* the client is running, whatever the cause, the client enters the
\* Reconnecting step: the attempt counter is incremented and the backoff
\* delay is waited before the next connection attempt.
C12_DropEntersReconnecting ==
    [][(feed_pc = "listening" /\ feed_pc' /= "listening" /\ feed_running)
          => /\ feed_pc' = "backoff"
             /\ reconnect_attempts' = reconnect_attempts + 1
             /\ delay' = Min2(1 * 2^reconnect_attempts, 60)]_vars

\* C13: once the attempt cap is exhausted the client no longer reports
\* itself as running, and the orchestrator is no longer waiting on its tasks
\* as in normal operation.
C13_ExhaustionSurfaced ==
    feed_pc = "gave_up" => (~is_running /\ app_pc /= "gather")

\* C14: every successful connection, made by run or by the Reconnecting
\* procedure, leaves the attempt counter at 0, and the counter is 0 whenever
\* the client is listening on a connection.
C14_ConnectedResets ==
    /\ [](feed_pc = "listening" => reconnect_attempts = 0)
    /\ [][(\/ feed_pc = "connecting" /\ feed_pc' = "listening"
           \/ feed_pc = "reconnecting" /\ feed_pc' \in {"connecting", "returned"})
             => (ws' = "open" /\ reconnect_attempts' = 0)]_vars

\* A reconnect attempt has just succeeded (no message was handled yet, so the
\* open connection is the one the Reconnecting procedure made).
C14_Witness ==
    /\ feed_pc = "connecting"
    /\ ws = "open"
    /\ arrived = <<>>
    /\ reconnect_attempts = 0

\* C18: once stop() has been called on a started client, no connection
\* attempt is started (a backoff in progress is abandoned), and when the run
\* loop has ended no connection made by the client is still open.
C18_StopDisconnects ==
    /\ [][(feed_pc /= "idle" /\ ~feed_running /\ feed_pc' /= feed_pc)
              => feed_pc' \notin {"connecting", "reconnecting"}]_vars
    /\ []((feed_pc \in {"gave_up", "returned"} /\ ~feed_running)
              => (ws /= "open" /\ ~orphaned))

\* C19: stop() never fails, and calling it again leaves the client as the
\* first call left it: as a function of the client's fields it is
\* idempotent, and a call made while the effect of an earlier call stands
\* changes nothing in the client.
C19_StopIdempotent ==
    /\ [](/\ ~stop(Client).failed
          /\ ~stop(stop(Client)).failed
          /\ stop(stop(Client)) = stop(Client))
    /\ [][(stop_calls' = stop_calls + 1 /\ stop_calls >= 1
              /\ ~feed_running /\ ws /= "open") => UNCHANGED feedVars]_vars

\* stop() was called a second time after the first call closed a connection.
C19_Witness == stop_calls = 2 /\ ws = "closed" /\ ~feed_running

----------------------------------------------------------------------------
(* Properties of the listening loop                                        *)

HandledStep == Len(arrived') = Len(arrived) + 1
LastHandled == arrived'[Len(arrived')]
NewCalls == SubSeq(calls', Len(calls) + 1, Len(calls'))

\* C15: a message that cannot be parsed into a bar is dropped: the store is
\* unchanged and the client goes on listening on the same connection.
C15_MalformedDropped ==
    [][(HandledStep /\ LastHandled.result /= "candle")
          => /\ UNCHANGED cacheVars
             /\ feed_pc' = "listening"
             /\ ws' = ws
             /\ orphaned' = orphaned]_vars

\* C16: for every closed bar handled, each registered callback is invoked
\* exactly once, in registration order, whether or not an earlier one
\* raised, and the client goes on listening on the same connection; no
\* other step invokes a callback.
C16_EveryCallbackOnce ==
    [][IF HandledStep /\ LastHandled.result = "candle" /\ LastHandled.closed
       THEN /\ Len(calls') = Len(calls) + Len(callbacks)
            /\ SubSeq(calls', 1, Len(calls)) = calls
            /\ \A i \in 1..Len(callbacks) :
                   /\ NewCalls[i].callback = i
                   /\ NewCalls[i].symbol = LastHandled.symbol
                   /\ NewCalls[i].interval = LastHandled.interval
                   /\ NewCalls[i].candle.timestamp = LastHandled.timestamp
            /\ feed_pc' = "listening"
            /\ ws' = ws
       ELSE calls' = calls]_vars

\* A callback raised and the callback registered after it was invoked for
\* the same bar.
C16_Witness ==
    \E i \in 1..(Len(calls) - 1) :
        /\ calls[i].raised
        /\ calls[i + 1].callback = calls[i].callback + 1
        /\ calls[i + 1].candle = calls[i].candle

ClosedArrivals(key) ==
    SelectSeq(arrived, LAMBDA a : /\ a.result = "candle"
                                  /\ a.closed
                                  /\ <<a.symbol, a.interval>> = key)
Notifications(i, key) ==
    SelectSeq(calls, LAMBDA c : c.callback = i /\ <<c.symbol, c.interval>> = key)

\* C17: for each stream and each callback, the bars notified are the closed
\* bars that arrived, in arrival order (open bars notify nothing), and every
\* callback finds the notified bar as the newest element of its series.
C17_NotifiedInArrivalOrder ==
    /\ \A key \in Keys : \A i \in 1..Len(callbacks) :
           /\ Len(Notifications(i, key)) = Len(ClosedArrivals(key))
           /\ \A j \in 1..Len(ClosedArrivals(key)) :
                  Notifications(i, key)[j].candle.timestamp
                      = ClosedArrivals(key)[j].timestamp
    /\ \A n \in 1..Len(calls) :
           /\ calls[n].candle.is_closed
           /\ calls[n].newest = Some(calls[n].candle)

\* Two closed bars of one stream arrived and were notified in that order.
C17_Witness ==
    \E key \in Keys :
        /\ Len(Notifications(1, key)) = 2
        /\ Notifications(1, key)[1].candle.timestamp
               < Notifications(1, key)[2].candle.timestamp

----------------------------------------------------------------------------
(* Properties of shutdown                                                  *)

StopRequested == stop_calls > 0

\* C20: after a stop request the run loop of the stream client and both
\* pollers eventually end, and no poller starts a poll cycle after the
\* request.
C20_TasksTerminate ==
    /\ StopRequested ~> (FeedEnded /\ FundingEnded /\ LiquidationEnded)
    /\ [][StopRequested
              => /\ (funding_pc' = "fetching" => funding_pc = "fetching")
                 /\ (liq_pc' = "fetching" => liq_pc = "fetching")]_vars

----------------------------------------------------------------------------
(* Properties of the cooldown manager                                      *)

\* The assets the names denote: one set of spellings per asset.
Spellings == {{"SUI", "sui"}, {"ETH"}}
Asset(name) == CHOOSE S \in Spellings : name \in S

\* The calls that concern an asset, oldest first.
OpsOn(asset) ==
    SelectSeq(cooldown_ops, LAMBDA o : o.altcoin \in asset \/ o.op = "clear_all")

RecordsOf(asset) ==
    SelectSeq(cooldown_ops, LAMBDA o : o.op = "record" /\ o.altcoin \in asset)

EverRecorded(asset) == RecordsOf(asset) /= <<>>

\* A record is held: the latest call that concerns the asset recorded an alert.
RecordHeld(asset) ==
    OpsOn(asset) /= <<>> /\ OpsOn(asset)[Len(OpsOn(asset))].op = "record"

\* Seconds since the latest record_alert for the asset.
Elapsed(asset) == now - RecordsOf(asset)[Len(RecordsOf(asset))].at

OpStep == Len(cooldown_ops') = Len(cooldown_ops) + 1
LastOp == cooldown_ops'[Len(cooldown_ops')]

\* C21 as stated: can_send_alert(asset) is true exactly when no alert was ever
\* recorded for the asset or the time since its last record is at least the
\* cooldown window.
C21_CanFireIffNeverOrElapsed ==
    \A name \in AssetNames :
        can_send_alert(name)
            <=> (~EverRecorded(Asset(name))
                 \/ Elapsed(Asset(name)) >= ALERT_COOLDOWN_SECONDS)

\* C21 amended: can_send_alert(asset) is true exactly when no record is held
\* for the asset (none was made, or clear_cooldown / clear_all removed it) or
\* the time since the record is at least the cooldown window; right after
\* record_alert(asset) it is false, for every spelling of the asset.
C21_CanFireIffNoRecordOrElapsed ==
    /\ [](\A name \in AssetNames :
            can_send_alert(name)
                <=> (~RecordHeld(Asset(name))
                     \/ Elapsed(Asset(name)) >= ALERT_COOLDOWN_SECONDS))
    /\ [][(OpStep /\ LastOp.op = "record")
            => \A name \in Asset(LastOp.altcoin) : ~can_send_alert(name)']_vars

\* An asset whose record is exactly one window old may fire again, and one
\* recorded half a window ago may not.
C21_Witness ==
    /\ RecordHeld(Asset("SUI")) /\ Elapsed(Asset("SUI")) = ALERT_COOLDOWN_SECONDS
    /\ can_send_alert("sui")
    /\ RecordHeld(Asset("ETH")) /\ Elapsed(Asset("ETH")) < ALERT_COOLDOWN_SECONDS
    /\ ~can_send_alert("ETH")

\* What is left of the window of the record held for an asset.
WindowLeft(asset) ==
    IF ~RecordHeld(asset) THEN 0
    ELSE IF Elapsed(asset) >= ALERT_COOLDOWN_SECONDS THEN 0
    ELSE ALERT_COOLDOWN_SECONDS - Elapsed(asset)

\* C22: get_remaining_cooldown(asset) is max(0, cooldown - elapsed) for the
\* record held and 0 without one; it is 0 exactly when can_send_alert(asset)
\* is true; and a step in which time passes and nothing is recorded never
\* increases it.
C22_RemainingIsWindowLeft ==
    /\ [](\A name \in AssetNames :
            /\ get_remaining_cooldown(name) = WindowLeft(Asset(name))
            /\ (get_remaining_cooldown(name) = 0) <=> can_send_alert(name))
    /\ [][(now' > now /\ cooldown_ops' = cooldown_ops)
            => \A name \in AssetNames :
                 get_remaining_cooldown(name)' <= get_remaining_cooldown(name)]_vars

\* Half of one asset's window is left while another asset's record is older
\* than the window.
C22_Witness ==
    /\ get_remaining_cooldown("sui") = ALERT_COOLDOWN_SECONDS \div 2
    /\ RecordHeld(Asset("ETH")) /\ Elapsed(Asset("ETH")) > ALERT_COOLDOWN_SECONDS
    /\ get_remaining_cooldown("ETH") = 0

\* C23: record_alert(a) and clear_cooldown(a) act on the asset a names,
\* whatever its spelling, and leave can_send_alert and get_remaining_cooldown
\* of every other asset as they were.
C23_OtherAssetsUntouched ==
    [][(OpStep /\ LastOp.op \in {"record", "clear"})
         => /\ \A b \in AssetNames \ Asset(LastOp.altcoin) :
                 /\ can_send_alert(b)' = can_send_alert(b)
                 /\ get_remaining_cooldown(b)' = get_remaining_cooldown(b)
            /\ \A a \in Asset(LastOp.altcoin) :
                 IF LastOp.op = "record"
                 THEN /\ ~can_send_alert(a)'
                      /\ get_remaining_cooldown(a)' = ALERT_COOLDOWN_SECONDS
                 ELSE /\ can_send_alert(a)'
                      /\ get_remaining_cooldown(a)' = 0]_vars

\* The lower-case spelling cleared the asset recorded under the upper-case
\* one while the other asset stayed in its cooldown.
C23_Witness ==
    /\ Len(cooldown_ops) = 3
    /\ cooldown_ops[1].op = "record" /\ cooldown_ops[1].altcoin = "ETH"
    /\ cooldown_ops[2].op = "record" /\ cooldown_ops[2].altcoin = "SUI"
    /\ cooldown_ops[3].op = "clear" /\ cooldown_ops[3].altcoin = "sui"
    /\ can_send_alert("SUI")
    /\ get_remaining_cooldown("ETH") = ALERT_COOLDOWN_SECONDS \div 2

----------------------------------------------------------------------------
(* Properties of the scheduling of evaluations                             *)

\* A step in which the listener handles a kline update, and the stream and
\* bar it wrote.
IngestStep == events' = events + 1
IngestedKey == CHOOSE key \in Keys : Len(writes'[key]) = Len(writes[key]) + 1
IngestedBar == writes'[IngestedKey][Len(writes'[IngestedKey])]

\* The listener has been started and the stream has an update for it.
UpdateWaiting == boot = Len(BackfillPlan) /\ events < MaxEvents

\* The tracked assets whose 1-minute stream the key is.
TrackedBy(key) == {a \in {"SUI"} : key = <<a \o "USDT", "1m">>}

\* C24: a closed 1-minute bar of a tracked asset schedules exactly one
\* evaluation of that asset, every other update schedules none, nothing but
\* the listener schedules; the evaluation does not run inside the listener's
\* step but as a later step of its own, once per scheduling; and the
\* listener can handle the next update whatever evaluations and deliveries
\* are pending.
C24_EvaluationScheduledPerClosedBar ==
    /\ [][/\ IngestStep
             => /\ pending' = IF IngestedBar.is_closed /\ TrackedBy(IngestedKey) /= {}
                              THEN Append(pending, CHOOSE a \in TrackedBy(IngestedKey) : TRUE)
                              ELSE pending
                /\ UNCHANGED <<evals, inflight, alerts, last_alerts,
                               signals_sent, errors_count>>
          /\ ~IngestStep => \/ pending' = pending
                            \/ pending /= <<>> /\ pending' = Tail(pending)
          /\ Len(evals') /= Len(evals)
             => /\ pending /= <<>>
                /\ pending' = Tail(pending)
                /\ evals' = Append(evals, NewEval)
                /\ NewEval.altcoin = Head(pending)
                /\ UNCHANGED cacheVars]_vars
    /\ [](UpdateWaiting => ENABLED Receive)

\* Two closed bars of the tracked asset were handled; the evaluation of one
\* is waiting for a channel's reply and the other's is scheduled.
C24_Witness ==
    /\ Len(ClosedWrites(<<"SUIUSDT", "1m">>)) = CANDLES_1M_BUFFER + 2
    /\ Len(evals) = 1
    /\ Len(inflight) = 1
    /\ pending = <<"SUI">>

----------------------------------------------------------------------------
(* Properties of the alert channels                                        *)

\* The channels whose send_signal has returned, in order.
SentChannels(replies) == [k \in 1..Len(replies) |-> replies[k].channel]

\* C25: every _send_alert that finishes has called send_signal of Telegram
\* and then of Discord, whatever Telegram's request ended with; a task whose
\* Telegram call has returned is inside Discord's call until it finishes; and
\* a task leaves _send_alert only by finishing it.
C25_BothChannelsAttempted ==
    /\ [](/\ \A k \in 1..Len(alerts) :
               SentChannels(alerts[k].replies) = <<"telegram", "discord">>
          /\ \A i \in 1..Len(inflight) :
               \/ inflight[i].pc = "telegram" /\ inflight[i].replies = <<>>
               \/ /\ inflight[i].pc = "discord"
                  /\ SentChannels(inflight[i].replies) = <<"telegram">>)
    /\ [][Len(inflight') < Len(inflight) => SendStep]_vars

\* One alert whose Telegram request timed out and one whose Telegram request
\* succeeded; Discord was asked both times.
C25_Witness ==
    \E i, j \in 1..Len(alerts) :
        /\ alerts[i].replies[1] = ChannelReply("telegram", "timeout")
        /\ alerts[j].replies[1] = ChannelReply("telegram", "200")
        /\ alerts[i].replies[2].channel = "discord"
        /\ alerts[j].replies[2].channel = "discord"
        /\ alerts[i].replies[2].reply /= "disabled"
        /\ alerts[j].replies[2].reply /= "disabled"

----------------------------------------------------------------------------
(* Properties of startup                                                   *)

BackfillDone == boot = Len(BackfillPlan)

\* C26: the stream client is started, and holds or has held a connection,
\* only when initialize_cache has made all its history fetches; until then
\* the only writes to the store are those of the backfill and no evaluation
\* is scheduled.
C26_BackfillBeforeStream ==
    /\ []((feed_pc /= "idle" \/ ws /= "none" \/ orphaned \/ arrived /= <<>>)
            => BackfillDone)
    /\ [][~BackfillDone
            => /\ pending' = pending
               /\ evals' = evals
               /\ writes' /= writes
                  => /\ boot' = boot + 1
                     /\ \A key \in Keys :
                          writes'[key] /= writes[key] => key = BackfillPlan[boot']]_vars

\* After the four history fetches the client connected, and a live bar was
\* appended to the backfilled series and scheduled an evaluation.
C26_Witness ==
    /\ BackfillDone
    /\ ws = "open"
    /\ Len(writes[<<"SUIUSDT", "1m">>]) = CANDLES_1M_BUFFER + 1
    /\ pending = <<"SUI">>

----------------------------------------------------------------------------
(* Properties of the strategy stages                                       *)

\* The lows of the closed 1m BTC bars in the cache, oldest first.
BtcLows == [i \in 1..Len(candles_1m[BtcSymbol]) |-> candles_1m[BtcSymbol][i].low]

\* At least five bars, and one of the four before the last has a low strictly
\* below the last bar's low.
LastLowAboveEarlier ==
    /\ Len(BtcLows) >= 5
    /\ \E k \in 1..4 : BtcLows[Len(BtcLows) - k] < BtcLows[Len(BtcLows)]

\* C27: the stabilization test is true exactly when at least 5 closed 1m BTC
\* bars exist and the low of the most recent one is strictly greater than the
\* minimum low of the four bars before it; with fewer than 5 bars, or a last
\* low equal to or below that minimum, it is false.  Both for the function
\* called on its own and for the status the signal check reads.
C27_StabilizingIffLastLowAbove ==
    applied.result /= None
        => /\ applied.result[1].is_stabilizing = LastLowAboveEarlier
           /\ applied.result[1].status = LastLowAboveEarlier

\* The lows 10, 9, 11, 8, 7: the last low 7 is not above 8, and the test fails.
C27_Witness ==
    /\ BtcLows = <<10, 9, 11, 8, 7>>
    /\ applied.result = Some([is_stabilizing |-> FALSE, status |-> FALSE])

\* The 1h change of a symbol in percent, as numerator and denominator (not
\* reduced): the last close against the close 60 bars from the end, and 0
\* while fewer than 60 bars are held.
Change1h(symbol) ==
    LET c == candles_1m[symbol]
        n == Len(c)
    IN  IF n < 60 THEN <<0, 1>>
        ELSE <<(c[n].close - c[n - 59].close) * 100, c[n - 59].close>>

\* x - y = s and x - y <= t, for fractions with positive denominators.
DiffIs(x, y, s) == (x[1] * y[2] - y[1] * x[2]) * s[2] = s[1] * x[2] * y[2]
DiffAtMost(x, y, t) == (x[1] * y[2] - y[1] * x[2]) * t[2] <= t[1] * x[2] * y[2]

\* C28: the underperformance stage computes spread = assetChange1h -
\* baseChange1h, passes exactly when spread <= the underperformance threshold,
\* and marks strength eligibility exactly when spread <= the strong threshold;
\* strength eligibility implies passing.
C28_SpreadAgainstThresholds ==
    applied.result /= None
        => LET r == applied.result[1].underperf
               a == Change1h(AltSymbol(applied.result[1].altcoin))
               b == Change1h(BtcSymbol)
           IN  /\ DiffIs(a, b, r.spread)
               /\ r.is_underperforming = DiffAtMost(a, b, UNDERPERFORMANCE_THRESHOLD)
               /\ r.is_strong_signal = DiffAtMost(a, b, UNDERPERFORMANCE_STRONG)
               /\ r.is_strong_signal => r.is_underperforming

\* BTC fell 1.5 % and the altcoin 3.8 % within the hour: the spread is -2.3,
\* the stage passes and the result is eligible for strength.
C28_Witness ==
    /\ applied.result /= None
    /\ applied.result[1].btc_change_1h = <<-3, 2>>
    /\ applied.result[1].underperf.alt_change_1h = <<-19, 5>>
    /\ applied.result[1].underperf.spread = <<-23, 10>>
    /\ applied.result[1].underperf.is_underperforming
    /\ applied.result[1].underperf.is_strong_signal

\* The ratio stage of check_signal lets the evaluation continue: analyze_ratio
\* returned, and one of its two flags is set.
RatioStageContinues(ratio) == ~ratio.raised /\ (ratio.is_oversold \/ ratio.near_24h_low)

\* RSI(14) of the ratio series is present and below the oversold threshold.
RsiBelowOversold(altcoin) ==
    LET rsi == get_ratio_rsi(altcoin, RSI_PERIOD)
    IN  rsi /= None /\ rsi[1][1] < RATIO_RSI_OVERSOLD * rsi[1][2]

\* trailing low <= current ratio <= trailing low * 1.01
WithinOnePercentAboveLow(altcoin) ==
    LET cur == get_current_ratio(altcoin)
        low == get_ratio_24h_low(altcoin)
    IN  /\ cur /= None
        /\ low /= None
        /\ low[1][1] * cur[1][2] <= cur[1][1] * low[1][2]
        /\ cur[1][1] * low[1][2] * 100 <= low[1][1] * cur[1][2] * 101

\* C29: the ratio stage passes exactly when RSI(14) of the ratio series is
\* present and below the oversold threshold, or the current ratio lies within
\* 1 % above the trailing low of the ratio series; it fails when the current
\* ratio is unavailable.
C29_RatioStagePassesIffOversoldOrNearLow ==
    applied.result /= None
        => LET altcoin == applied.result[1].altcoin
           IN  RatioStageContinues(applied.result[1].ratio)
                 <=> /\ get_current_ratio(altcoin) /= None
                     /\ RsiBelowOversold(altcoin) \/ WithinOnePercentAboveLow(altcoin)

\* The close of the 15m bar of a symbol that is j bars before its last one.
CloseFromEnd(symbol, j) == candles_15m[symbol][Len(candles_15m[symbol]) - j].close

\* The shorter of the two 15m series' lengths.
ShorterLen(altcoin) ==
    IF Len(candles_15m[AltSymbol(altcoin)]) <= Len(candles_15m[BtcSymbol])
    THEN Len(candles_15m[AltSymbol(altcoin)])
    ELSE Len(candles_15m[BtcSymbol])

\* The entry of ratios that is r entries before its last one is the quotient
\* of the two closes j bars before the last ones.
IsQuotientFromEnd(ratios, r, altcoin, j) ==
    /\ r < Len(ratios)
    /\ ratios[Len(ratios) - r][1] * CloseFromEnd(BtcSymbol, j)
         = CloseFromEnd(AltSymbol(altcoin), j) * ratios[Len(ratios) - r][2]

\* The aligned positions, counted from the end, whose BTC close is not 0.
NonZeroFromEnd(altcoin) ==
    {j \in 0..(ShorterLen(altcoin) - 1) : CloseFromEnd(BtcSymbol, j) /= 0}

\* C30 as stated: the ratio series is as long as the shorter of the two 15m
\* series, and its i-th-from-last entry is the quotient of the two
\* i-th-from-last closes.
C30_RatioSeriesPairsByPosition ==
    applied.result /= None
        => LET altcoin == applied.result[1].altcoin
               ratios == applied.result[1].ratios
           IN  /\ Len(ratios) = ShorterLen(altcoin)
               /\ \A j \in 0..(ShorterLen(altcoin) - 1) :
                    /\ CloseFromEnd(BtcSymbol, j) /= 0
                    /\ IsQuotientFromEnd(ratios, j, altcoin, j)

\* C30, amended: both series are truncated to the shorter length from the most
\* recent end and paired by position; the pairs whose BTC close is exactly 0
\* are left out, so the series is as long as the number of remaining pairs,
\* and its entries are their quotients in chronological order.
C30_RatioSeriesPairsNonZeroByPosition ==
    applied.result /= None
        => LET altcoin == applied.result[1].altcoin
               ratios == applied.result[1].ratios
           IN  /\ Len(ratios) = Cardinality(NonZeroFromEnd(altcoin))
               /\ \A j \in NonZeroFromEnd(altcoin) :
                    IsQuotientFromEnd(ratios,
                                      Cardinality({k \in NonZeroFromEnd(altcoin) : k < j}),
                                      altcoin, j)

\* Three altcoin closes against two BTC closes, the older of them 0: the
\* oldest altcoin close is cut off, the pair with the zero is left out, and
\* the series holds the one quotient 3 / 2.
C30_Witness ==
    /\ Closes(candles_15m["SUIUSDT"]) = <<2, 2, 3>>
    /\ Closes(candles_15m[BtcSymbol]) = <<0, 2>>
    /\ applied.result /= None
    /\ applied.result[1].ratios = << <<3, 2>> >>

----------------------------------------------------------------------------
(* Properties of the signal check                                          *)

\* The step that applies the function, and what it returned.
ApplyStep == applied.result = None /\ applied'.result /= None
Applied == applied'.result[1]

\* The stages before the funding stage let the evaluation through.
ReachesFunding(a, debug_line_ok) ==
    /\ CooldownAllows(a)
    /\ BaseDipped
    /\ BaseStabilizing
    /\ SpreadAtThreshold(a)
    /\ RatioStagePasses(a)
    /\ debug_line_ok

\* C31: the funding stage passes when no funding rate is cached for the asset
\* and otherwise exactly when the rate is above the floor; the squeeze and
\* crowded flags never change the decision: an evaluation that reaches the
\* stage stops there exactly when the rate is not valid, and otherwise yields
\* a Signal, which carries the crowded-longs warning exactly when the rate is
\* above the crowded level.
C31_FundingStagePassesIffAboveFloor ==
    [][ApplyStep
        => /\ Applied.funding.is_valid = FundingValid(Applied.altcoin)
           /\ ReachesFunding(Applied.altcoin, Applied.debug_line_ok)
                => /\ ~FundingValid(Applied.altcoin)
                      => Applied.signal = NoSignal("funding")
                   /\ FundingValid(Applied.altcoin)
                      => /\ Applied.signal.outcome = "signal"
                         /\ ("Crowded longs - be cautious"
                                \in {Applied.signal.warnings[i] :
                                        i \in 1..Len(Applied.signal.warnings)})
                             <=> /\ funding_rates[AltSymbol(Applied.altcoin)] /= None
                                 /\ funding_rates[AltSymbol(Applied.altcoin)][1]
                                       > FUNDING_RATE_CROWDED]_vars

\* A crowded rate (0.06 %) was cached and the evaluation returned a Signal
\* with the crowded-longs warning.
C31_Witness ==
    /\ applied.result /= None
    /\ applied.result[1].funding.rate = Some(6)
    /\ applied.result[1].funding.crowded_longs
    /\ applied.result[1].signal.outcome = "signal"
    /\ applied.result[1].signal.warnings = <<"Crowded longs - be cautious">>

\* C32: the liquidation stage never changes whether a Signal is emitted.
\* Whatever the liquidation source holds (disabled, disabled after a 403, no
\* cached data, data with or without clusters in the bands), an evaluation
\* returns a Signal exactly when the other stages let it through; the
\* Signal's annotation is present exactly when the fetcher is enabled and
\* holds data for the asset, and its warnings name the clusters found.
C32_LiquidationsNeverBlock ==
    [][ApplyStep
        => /\ Applied.signal.outcome = "signal"
                <=> GatesHold(Applied.altcoin) /\ Applied.debug_line_ok
           /\ Applied.signal.outcome = "signal"
                => /\ Applied.signal.liquidation_check /= None
                        <=> liq_enabled /\ liq_cache[Applied.altcoin] /= None
                   /\ Len(Applied.signal.warnings)
                        = IF Applied.signal.liquidation_check = None THEN 0
                          ELSE Cardinality(
                                 {side \in {"below", "above"} :
                                    IF side = "below"
                                    THEN Applied.signal.liquidation_check[1].has_cluster_below
                                    ELSE Applied.signal.liquidation_check[1].has_cluster_above})]_vars

\* A Signal was returned while the fetcher held a cluster on each side of the
\* price: it carries the annotation and the two warnings.
C32_Witness ==
    /\ applied.result /= None
    /\ applied.result[1].signal.outcome = "signal"
    /\ applied.result[1].signal.liquidation_check /= None
    /\ applied.result[1].signal.liquidation_check[1].has_cluster_below
    /\ applied.result[1].signal.liquidation_check[1].has_cluster_above
    /\ Len(applied.result[1].signal.warnings) = 2

\* The levels of the response that lie on the given side of its price, hold
\* a value on that side, and are at most pct_num / pct_den percent away.
InBand(data, below, pct_num, pct_den) ==
    {i \in 1..Len(data.levels) :
        LET level == data.levels[i]
        IN  IF below
            THEN /\ level.price < data.price
                 /\ level.longLiquidationUsd > 0
                 /\ (data.price - level.price) * 100 * pct_den <= pct_num * data.price
            ELSE /\ level.price > data.price
                 /\ level.shortLiquidationUsd > 0
                 /\ (level.price - data.price) * 100 * pct_den <= pct_num * data.price}

LevelValue(level, below) ==
    IF below THEN level.longLiquidationUsd ELSE level.shortLiquidationUsd

LevelDistance(data, level) ==
    IF level.price < data.price THEN data.price - level.price
    ELSE level.price - data.price

\* The reported cluster is absent when the band is empty, and otherwise is a
\* level of the band of the highest value and, among those, nearest to the
\* price.
ReportsBest(reported, data, below, pct_num, pct_den) ==
    IF InBand(data, below, pct_num, pct_den) = {} THEN reported = None
    ELSE /\ reported /= None
         /\ reported[1].is_long = below
         /\ \E i \in InBand(data, below, pct_num, pct_den) :
              /\ reported[1].price = data.levels[i].price
              /\ reported[1].total_value_usd = LevelValue(data.levels[i], below)
              /\ \A j \in InBand(data, below, pct_num, pct_den) :
                   \/ LevelValue(data.levels[j], below) < LevelValue(data.levels[i], below)
                   \/ /\ LevelValue(data.levels[j], below) = LevelValue(data.levels[i], below)
                      /\ LevelDistance(data, data.levels[i])
                            <= LevelDistance(data, data.levels[j])

\* C33: the cluster reported below the price is the highest-value
\* long-liquidation cluster among those at most 1.5 % below, the cluster
\* reported above is the highest-value short-liquidation cluster among those
\* at most 2.0 % above; of several clusters of the highest value the nearest
\* is chosen; no cluster is reported when the band is empty.
C33_ReportsHighestValueInBand ==
    applied.result /= None
        => /\ applied.result[1] /= None
           /\ ReportsBest(applied.result[1][1].cluster_below_warning,
                          applied.input, TRUE, 3, 2)
           /\ ReportsBest(applied.result[1][1].cluster_above_note,
                          applied.input, FALSE, 2, 1)
           /\ applied.result[1][1].has_cluster_below
                = (applied.result[1][1].cluster_below_warning /= None)
           /\ applied.result[1][1].has_cluster_above
                = (applied.result[1][1].cluster_above_note /= None)

\* Two long clusters of the same value 0.5 % and 1.5 % below, listed farthest
\* first, and a larger one 2 % below: the one 0.5 % below is reported; nothing
\* is reported above.
C33_Witness ==
    /\ applied.input.levels = <<LiqLevel(197, 1, 1), LiqLevel(196, 2, 2), LiqLevel(199, 1, 1)>>
    /\ applied.result /= None
    /\ applied.result[1][1].cluster_below_warning /= None
    /\ applied.result[1][1].cluster_below_warning[1].price = 199
    /\ applied.result[1][1].cluster_below_warning[1].total_value_usd = 1
    /\ applied.result[1][1].cluster_above_note = None

\* The spread (altcoin's 1h change minus BTC's) is at or below the strong
\* threshold of -2 %.
SpreadAtStrong(a) ==
    LET ac == HourChange(AltSymbol(a))
        bc == HourChange(BtcSymbol)
    IN  ac[1] * bc[2] - bc[1] * ac[2] <= -2 * (ac[2] * bc[2])

\* A funding rate is cached for the asset and lies in the squeeze band.
RateInSqueezeBand(a) ==
    /\ funding_rates[AltSymbol(a)] /= None
    /\ funding_rates[AltSymbol(a)][1] >= FUNDING_RATE_SQUEEZE_LOW
    /\ funding_rates[AltSymbol(a)][1] <= FUNDING_RATE_SQUEEZE_HIGH

\* C34: an emitted Signal is marked strong exactly when the spread is at or
\* below the strong threshold, the RSI of the ratio series is below the
\* oversold threshold, and the funding rate lies in the squeeze band; a Signal
\* that passed the ratio stage only through the near-low condition, or for
\* which no funding rate is cached, is never strong.
C34_StrongIffAllThree ==
    [][ApplyStep /\ Applied.signal.outcome = "signal"
        => /\ Applied.signal.is_strong
                <=> /\ SpreadAtStrong(Applied.altcoin)
                    /\ RsiBelowOversold(Applied.altcoin)
                    /\ RateInSqueezeBand(Applied.altcoin)
           /\ ~RsiBelowOversold(Applied.altcoin) => ~Applied.signal.is_strong
           /\ funding_rates[AltSymbol(Applied.altcoin)] = None
                => ~Applied.signal.is_strong]_vars

\* A strong Signal at the edges: spread exactly -2 % (altcoin -3 %, BTC -1 %),
\* ratio RSI 0, funding rate -0.03 %.
C34_Witness ==
    /\ applied.result /= None
    /\ applied.result[1].signal.outcome = "signal"
    /\ applied.result[1].signal.is_strong
    /\ applied.result[1].funding.rate = Some(-3)
    /\ Latest("SUIUSDT") = 97
    /\ Latest(BtcSymbol) = 990

\* The current price of the asset as the evaluation reads it.
PriceRead(a) == get_current_price(AltSymbol(a))[1]

\* A level in millionths of the quote currency; every level is a whole number
\* of them for a whole price.
Micro(level) == level[1] * (1000000 \div level[2])

\* C35: every emitted Signal has entry_high = price, entry_low = price * 0.997,
\* stop_loss = entry_low * 0.995, target_1 = price * 1.01 and
\* target_2 = price * 1.015 for the current price read at emission; hence, the
\* price being positive, stop_loss < entry_low < entry_high < target_1 <
\* target_2.
C35_LevelsFromPrice ==
    [][ApplyStep /\ Applied.signal.outcome = "signal"
        => /\ Applied.signal.current_price = PriceRead(Applied.altcoin)
           /\ \A name \in DOMAIN Applied.signal.levels :
                1000000 % Applied.signal.levels[name][2] = 0
           /\ Micro(Applied.signal.levels.entry_high)
                = PriceRead(Applied.altcoin) * 1000000
           /\ Micro(Applied.signal.levels.entry_low)
                = PriceRead(Applied.altcoin) * 997000
           /\ Micro(Applied.signal.levels.stop_loss)
                = (Micro(Applied.signal.levels.entry_low) \div 1000) * 995
           /\ Micro(Applied.signal.levels.target_1)
                = PriceRead(Applied.altcoin) * 1010000
           /\ Micro(Applied.signal.levels.target_2)
                = PriceRead(Applied.altcoin) * 1015000
           /\ PriceRead(Applied.altcoin) > 0
                => /\ Micro(Applied.signal.levels.stop_loss)
                        < Micro(Applied.signal.levels.entry_low)
                   /\ Micro(Applied.signal.levels.entry_low)
                        < Micro(Applied.signal.levels.entry_high)
                   /\ Micro(Applied.signal.levels.entry_high)
                        < Micro(Applied.signal.levels.target_1)
                   /\ Micro(Applied.signal.levels.target_1)
                        < Micro(Applied.signal.levels.target_2)]_vars

\* A Signal at a price of 96: entry band 95.712 to 96, stop 95.23344,
\* targets 96.96 and 97.44.
C35_Witness ==
    /\ applied.result /= None
    /\ applied.result[1].signal.outcome = "signal"
    /\ applied.result[1].signal.current_price = 96
    /\ applied.result[1].signal.levels.entry_high = <<96, 1>>
    /\ applied.result[1].signal.levels.entry_low = <<11964, 125>>
    /\ applied.result[1].signal.levels.stop_loss = <<595209, 6250>>
    /\ applied.result[1].signal.levels.target_1 = <<2424, 25>>
    /\ applied.result[1].signal.levels.target_2 = <<2436, 25>>

\* C37: with the default thresholds no Signal is returned for an asset while
\* BTC or that asset has fewer than 60 closed 1m bars in the store: the
\* changes of the short series are taken as 0, so the evaluation ends at the
\* dip test (BTC short) or at the latest at the underperformance test (asset
\* short).
C37_NoSignalBelowSixtyBars ==
    [][ApplyStep
        => /\ Len(candles_1m[BtcSymbol]) < 60
                => Applied.signal = NoSignal("btc_dip")
           /\ Len(candles_1m[AltSymbol(Applied.altcoin)]) < 60
                => /\ Applied.signal.outcome = "none"
                   /\ Applied.signal.stage
                        \in {"btc_dip", "btc_stabilizing", "underperformance"}]_vars

\* BTC has its 60 bars, fell by 1 % and is stabilizing, the asset fell from
\* 107 to 96 over its 59 bars: the evaluation ends at the underperformance
\* test.
C37_Witness ==
    /\ Len(candles_1m[BtcSymbol]) = 60
    /\ Len(candles_1m["SUIUSDT"]) = 59
    /\ Latest("SUIUSDT") = 96
    /\ applied.result /= None
    /\ applied.result[1].signal = NoSignal("underperformance")

\* No close of the list is below the close before it.
NoNegativeDelta(closes) ==
    \A i \in 1..(Len(closes) - 1) : closes[i + 1] >= closes[i]

\* The RSI returned is a number from 0 to 100.
RsiInRange(rsi) == rsi[2] > 0 /\ 0 <= rsi[1] /\ rsi[1] <= 100 * rsi[2]

RsiIsHundred(rsi) == rsi[1] = 100 * rsi[2]

\* C36 as stated: calculate_rsi(closes, period) is absent exactly when fewer
\* than period + 1 closes are supplied; otherwise it lies in 0..100 and equals
\* 100 exactly when no step-to-step delta of the supplied closes is negative
\* (a completely flat series included).
C36_RsiAbsentRangeAndHundred ==
    applied.result /= None
        => /\ applied.result[1] = None
                <=> Len(applied.input.closes) < applied.input.period + 1
           /\ applied.result[1] /= None
                => /\ RsiInRange(applied.result[1][1])
                   /\ RsiIsHundred(applied.result[1][1])
                        <=> NoNegativeDelta(applied.input.closes)

\* C36, amended: absent exactly when fewer than period + 1 closes are
\* supplied; otherwise in 0..100, and equal to 100 exactly when no delta of
\* the supplied closes is negative for a period of at least 2, and exactly
\* when the last delta is not negative for a period of 1.
C36_RsiHundredIffNoLossCounted ==
    applied.result /= None
        => /\ applied.result[1] = None
                <=> Len(applied.input.closes) < applied.input.period + 1
           /\ applied.result[1] /= None
                => /\ RsiInRange(applied.result[1][1])
                   /\ RsiIsHundred(applied.result[1][1])
                        <=> IF applied.input.period >= 2
                            THEN NoNegativeDelta(applied.input.closes)
                            ELSE NoNegativeDelta(LastSlice(applied.input.closes, 2))

\* Period 2 and the closes 1, 3, 3, 2: the only fall comes after the first
\* two deltas, and the RSI is 50, not 100.
C36_Witness ==
    /\ applied.input = [closes |-> <<1, 3, 3, 2>>, period |-> 2]
    /\ applied.result = Some(Some(<<50, 1>>))

----------------------------------------------------------------------------
(* Properties of the connection held by the stream client                  *)

\* A step in which websockets.connect returns a new connection.
Opens == feed_pc \in {"connecting", "reconnecting"} /\ feed_pc' /= feed_pc /\ ws' = "open"

\* C38: the stream client holds at most one open connection: whenever a new
\* connection is opened, by the first connect, by a reconnect or by a retry,
\* the connection opened before it has been closed, so no connection is open
\* that the client does not listen to.
C38_AtMostOneOpenConnection ==
    /\ [][Opens => ws /= "open"]_vars
    /\ [](~orphaned)

\* C40: once stop() has been called on the stream client, no message is
\* handled: none is written to the store and no callback is invoked.
C40_NothingHandledAfterStop ==
    [][stop_calls > 0 => arrived' = arrived /\ calls' = calls]_vars

\* C39: one evaluation reads a single state of the store: the step that runs
\* check_signal, from its cooldown check to the construction of the Signal,
\* writes no bar, no funding rate and no cooldown record, and its result is
\* the one all stages give on the state in which the step began.
C39_EvaluationReadsOneState ==
    [][EvalStep
        => /\ UNCHANGED <<cacheVars, funding_rates, last_alerts>>
           /\ \E debug_line_ok \in BOOLEAN :
                /\ NewEval.outcome = check_signal(Head(pending), debug_line_ok).outcome
                /\ NewEval.stage = check_signal(Head(pending), debug_line_ok).stage]_vars

\* An evaluation returned a Signal on a state with a cached funding rate while
\* a later closing bar had already scheduled the next evaluation.
C39_Witness ==
    /\ evals /= <<>>
    /\ evals[Len(evals)].outcome = "signal"
    /\ funding_rates["SUIUSDT"] = Some(-5)
    /\ pending /= <<>>

====
